---- MODULE Spec2Model ----
(***************************************************************************)
(* A model of the riff-roulette real-time session engine:                  *)
(*   backend/app/api/websocket.py   (GameSession, websocket_endpoint)      *)
(*   backend/app/services/scoring.py (ScoringService)                      *)
(*   backend/app/models/schema.py    (GameState, NoteHitEvent, ...)        *)
(*                                                                         *)
(* Units.  The wall clock (datetime.now().timestamp()) is counted in whole *)
(* seconds.  Note times (start, end) are counted in units of 0.05 s.       *)
(* Scores are fixed-point integers, ScoreUnit units to one point, so that  *)
(* every weight and multiplier of the scoring code is applied exactly.     *)
(* combo_multiplier is kept in halves (2 stands for 1.0, 8 for 4.0).       *)
(***************************************************************************)
EXTENDS Integers, Sequences, FiniteSets, TLC

(***************************************************************************)
(* Bounds of the model.                                                    *)
(***************************************************************************)
StartTime == 100     \* the clock when the session object is constructed
MaxTime == 30        \* the clock runs to StartTime + MaxTime
TickSeconds == 5     \* the clock is observed every TickSeconds seconds
MaxInbox == 1        \* inbound messages queued and not yet received
MaxHits == 6         \* note_hit messages the client sends in one session

(***************************************************************************)
(* Fixed-point scales (not program constants).                             *)
(***************************************************************************)
ScoreUnit == 12 * 1000
UnitsPerSecond == 4 * 5

(***************************************************************************)
(* Program constants.                                                      *)
(***************************************************************************)
PerfectTimingWindow == 2        \* 0.1 s
GoodTimingWindow == 4           \* 0.2 s
AcceptableTimingWindow == 6     \* 0.3 s
PerfectPoints == 100
GoodPoints == 30
AcceptablePoints == 20
ReactionWeight == 4             \* tenths
RhythmWeight == 3               \* tenths
CreativityWeight == 3           \* tenths
MaxComboMultiplier == 8         \* halves: 4.0
RecentScoresSize == 5
PatternLength == 3
PhraseGap == 10                 \* 0.5 s
TriggerSessionAge == 15         \* seconds
TriggerProblemGap == 15         \* seconds
TriggerCombo == 5
ProblemSectionDuration == 7     \* seconds
WarningDelay == 5               \* seconds

Difficulties == {"easy", "medium", "hard", "expert"}

\* difficulty_multipliers, in tenths
DifficultyMultiplier(d) ==
    CASE d = "easy" -> 8
      [] d = "medium" -> 10
      [] d = "hard" -> 12
      [] d = "expert" -> 15

(***************************************************************************)
(* Helpers over numbers and sequences.                                     *)
(***************************************************************************)
Abs(x) == IF x < 0 THEN 0 - x ELSE x

Min2(a, b) == IF a <= b THEN a ELSE b

Max2(a, b) == IF a >= b THEN a ELSE b

Sign(x) == IF x < 0 THEN 0 - 1 ELSE IF x > 0 THEN 1 ELSE 0

RECURSIVE SumSeq(_)
SumSeq(s) == IF s = <<>> THEN 0 ELSE Head(s) + SumSeq(Tail(s))

SeqMin(s) == CHOOSE x \in {s[i] : i \in 1..Len(s)} :
                 \A j \in 1..Len(s) : x <= s[j]

\* np.diff of a sequence of numbers
Diff(s) == [i \in 1..(IF Len(s) = 0 THEN 0 ELSE Len(s) - 1) |-> s[i+1] - s[i]]

Pitches(notes) == [i \in 1..Len(notes) |-> notes[i].pitch]

Starts(notes) == [i \in 1..Len(notes) |-> notes[i].start]

\* the timing windows with the good window as wide as the acceptable one
TimingPointsWideGood(num, den) ==
    IF num <= PerfectTimingWindow * den THEN PerfectPoints * ScoreUnit
    ELSE IF num <= AcceptableTimingWindow * den THEN GoodPoints * ScoreUnit
    ELSE Max2(0, (AcceptablePoints * ScoreUnit
                    * (UnitsPerSecond * den - (num - AcceptableTimingWindow * den)))
                 \div (UnitsPerSecond * den))

(***************************************************************************)
(* ScoringService: the score components.                                   *)
(***************************************************************************)
\* The piecewise timing-window function shared by the reaction and the
\* rhythm score, applied to the error num/den (units of 0.05 s).
TimingPoints(num, den) ==
    IF num <= PerfectTimingWindow * den THEN PerfectPoints * ScoreUnit
    ELSE IF num <= GoodTimingWindow * den THEN GoodPoints * ScoreUnit
    ELSE IF num <= AcceptableTimingWindow * den THEN AcceptablePoints * ScoreUnit
    ELSE Max2(0, (AcceptablePoints * ScoreUnit
                    * (UnitsPerSecond * den - (num - AcceptableTimingWindow * den)))
                 \div (UnitsPerSecond * den))

\* _calculate_reaction_score; mutation_time in units of 0.05 s
ReactionScore(mutation_time, player_notes) ==
    IF player_notes = <<>> THEN 0
    ELSE TimingPoints(SeqMin(Starts(player_notes)) - mutation_time, 1)

\* the error of the player note nearest to orig_time
NearestError(orig_time, player_notes) ==
    SeqMin([i \in 1..Len(player_notes) |-> Abs(player_notes[i].start - orig_time)])

\* _calculate_rhythm_score
RhythmScore(original_notes, player_notes) ==
    IF original_notes = <<>> \/ player_notes = <<>> THEN 0
    ELSE TimingPoints(
           SumSeq([i \in 1..Len(original_notes) |->
                      NearestError(original_notes[i].start, player_notes)]),
           Len(original_notes))

\* _evaluate_pitch_coherence
PitchCoherence(original_notes, player_notes) ==
    LET oi == Diff(Pitches(original_notes))
        pi == Diff(Pitches(player_notes))
        n  == Min2(Len(oi), Len(pi))
        matched == Cardinality({i \in 1..n :
                       \/ Sign(oi[i]) = Sign(pi[i])
                       \/ Abs(oi[i] - pi[i]) \in {0, 7, 12}})
    IN  IF Len(oi) = 0 \/ Len(pi) = 0 THEN 0
        ELSE (matched * 100 * ScoreUnit) \div Len(oi)

\* _evaluate_rhythmic_variation
RhythmicVariation(original_notes, player_notes, last_notes) ==
    IF last_notes = <<>> THEN GoodPoints * ScoreUnit
    ELSE IF Abs(Len(player_notes) - Len(last_notes)) > 0
            /\ 10 * Len(player_notes) >= 8 * Len(original_notes)
         THEN PerfectPoints * ScoreUnit
    ELSE IF 10 * Len(player_notes) >= 9 * Len(original_notes)
         THEN GoodPoints * ScoreUnit
    ELSE AcceptablePoints * ScoreUnit

\* get_patterns: the pitch windows of length PatternLength
Patterns(notes) ==
    [i \in 1..Max2(0, Len(notes) - PatternLength + 1) |->
        [j \in 1..PatternLength |-> notes[i + j - 1].pitch]]

\* _are_patterns_related
PatternsRelated(p1, p2) == Len(p1) = Len(p2) /\ Diff(p1) = Diff(p2)

\* _analyze_motif_development
MotifDevelopment(original_notes, player_notes) ==
    LET op == Patterns(original_notes)
        pp == Patterns(player_notes)
        related == Cardinality({i \in 1..Len(pp) :
                       \E j \in 1..Len(op) : PatternsRelated(pp[i], op[j])})
    IN  IF Len(pp) = 0 THEN 0
        ELSE (related * 100 * ScoreUnit) \div Len(pp)

\* _analyze_phrase_structure
PhraseStructure(player_notes) ==
    IF \E i \in 2..Len(player_notes) :
           player_notes[i].start - player_notes[i-1].end > PhraseGap
    THEN PerfectPoints * ScoreUnit
    ELSE AcceptablePoints * ScoreUnit

\* _evaluate_musical_development
MusicalDevelopment(original_notes, player_notes, last_notes) ==
    IF last_notes = <<>> THEN GoodPoints * ScoreUnit
    ELSE (MotifDevelopment(original_notes, player_notes)
            + PhraseStructure(player_notes)) \div 2

\* _calculate_creativity_score
CreativityScore(original_notes, player_notes, last_notes) ==
    IF original_notes = <<>> \/ player_notes = <<>> THEN 0
    ELSE (4 * PitchCoherence(original_notes, player_notes)
            + 3 * RhythmicVariation(original_notes, player_notes, last_notes)
            + 3 * MusicalDevelopment(original_notes, player_notes, last_notes))
         \div 10

\* the three components added up without their weights
BaseScoreUnweighted(reaction, rhythm, creativity) ==
    reaction + rhythm + creativity

BaseScore(reaction, rhythm, creativity) ==
    (ReactionWeight * reaction + RhythmWeight * rhythm
        + CreativityWeight * creativity) \div 10

\* _adjust_difficulty with the thresholds met by a mean equal to them
AdjustDifficultyNonStrict(difficulty, recent_scores) ==
    IF Len(recent_scores) < RecentScoresSize THEN difficulty
    ELSE LET total == SumSeq(recent_scores)
             n == Len(recent_scores)
         IN  IF difficulty = "easy" /\ total >= 85 * ScoreUnit * n THEN "medium"
             ELSE IF difficulty = "medium" /\ total >= 90 * ScoreUnit * n THEN "hard"
             ELSE IF difficulty = "hard" /\ total >= 95 * ScoreUnit * n THEN "expert"
             ELSE IF total <= 60 * ScoreUnit * n
                  THEN CASE difficulty = "expert" -> "hard"
                         [] difficulty = "hard" -> "medium"
                         [] difficulty = "medium" -> "easy"
                         [] OTHER -> difficulty
             ELSE difficulty

\* _adjust_difficulty without its branch for a low mean
AdjustDifficultyNeverDown(difficulty, recent_scores) ==
    IF Len(recent_scores) < RecentScoresSize THEN difficulty
    ELSE LET total == SumSeq(recent_scores)
             n == Len(recent_scores)
         IN  IF difficulty = "easy" /\ total > 85 * ScoreUnit * n THEN "medium"
             ELSE IF difficulty = "medium" /\ total > 90 * ScoreUnit * n THEN "hard"
             ELSE IF difficulty = "hard" /\ total > 95 * ScoreUnit * n THEN "expert"
             ELSE difficulty

\* _adjust_difficulty: the difficulty after recent_scores was updated
AdjustDifficulty(difficulty, recent_scores) ==
    IF Len(recent_scores) < RecentScoresSize THEN difficulty
    ELSE LET total == SumSeq(recent_scores)
             n == Len(recent_scores)
         IN  IF difficulty = "easy" /\ total > 85 * ScoreUnit * n THEN "medium"
             ELSE IF difficulty = "medium" /\ total > 90 * ScoreUnit * n THEN "hard"
             ELSE IF difficulty = "hard" /\ total > 95 * ScoreUnit * n THEN "expert"
             ELSE IF total < 60 * ScoreUnit * n
                  THEN CASE difficulty = "expert" -> "hard"
                         [] difficulty = "hard" -> "medium"
                         [] difficulty = "medium" -> "easy"
                         [] OTHER -> difficulty
             ELSE difficulty

\* recent_scores.append(base_score), then pop(0) when longer than 5
PushRecent(recent_scores, base_score) ==
    LET r == Append(recent_scores, base_score)
    IN  IF Len(r) > RecentScoresSize THEN Tail(r) ELSE r

\* the combo update without the cap on the multiplier
ComboUpdateUncapped(combo_count, base_score) ==
    IF base_score >= GoodPoints * ScoreUnit
    THEN << combo_count + 1, 2 + (combo_count + 1) >>
    ELSE << 0, 2 >>

\* The combo update of evaluate_adaptation: <<combo_count, combo_multiplier>>
ComboUpdate(combo_count, base_score) ==
    IF base_score >= GoodPoints * ScoreUnit
    THEN <<combo_count + 1, Min2(2 + (combo_count + 1), MaxComboMultiplier)>>
    ELSE <<0, 2>>

\* start_session: the engine's state at construction
StartSession ==
    [current_score |-> 0, combo_multiplier |-> 2, combo_count |-> 0,
     difficulty |-> "medium", recent_scores |-> <<>>, last_notes |-> <<>>,
     metrics |-> [creativity_score |-> 0, reaction_score |-> 0, rhythm_score |-> 0]]

\* evaluate_adaptation keeping the score of the last call only
EvaluateWithoutSum(st, reaction, rhythm, creativity, player_notes) ==
    LET base == BaseScore(reaction, rhythm, creativity)
        cu == ComboUpdate(st.combo_count, base)
        final == (base * DifficultyMultiplier(st.difficulty) * cu[2]) \div 20
        recent == PushRecent(st.recent_scores, base)
    IN  [current_score |-> final,
         combo_multiplier |-> cu[2],
         combo_count |-> cu[1],
         difficulty |-> AdjustDifficulty(st.difficulty, recent),
         recent_scores |-> recent,
         last_notes |-> player_notes,
         metrics |-> [creativity_score |-> creativity,
                      reaction_score |-> reaction,
                      rhythm_score |-> rhythm]]

\* evaluate_adaptation from the point where the three components are known
\* (the combo update, the score, recent_scores, the difficulty)
EvaluateWith(st, reaction, rhythm, creativity, player_notes) ==
    LET base == BaseScore(reaction, rhythm, creativity)
        cu == ComboUpdate(st.combo_count, base)
        final == (base * DifficultyMultiplier(st.difficulty) * cu[2]) \div 20
        recent == PushRecent(st.recent_scores, base)
    IN  [current_score |-> st.current_score + final,
         combo_multiplier |-> cu[2],
         combo_count |-> cu[1],
         difficulty |-> AdjustDifficulty(st.difficulty, recent),
         recent_scores |-> recent,
         last_notes |-> player_notes,
         metrics |-> [creativity_score |-> creativity,
                      reaction_score |-> reaction,
                      rhythm_score |-> rhythm]]

\* evaluate_adaptation: the engine's state after the call.  The returned
\* ScoreUpdate carries total_score = current_score of that state and the
\* three components of its metrics.
EvaluateAdaptation(st, original_notes, player_notes, mutation_time) ==
    EvaluateWith(st,
                 ReactionScore(mutation_time, player_notes),
                 RhythmScore(original_notes, player_notes),
                 CreativityScore(original_notes, player_notes, st.last_notes),
                 player_notes)

(***************************************************************************)
(* The session: GameSession and the loop of websocket_endpoint.            *)
(***************************************************************************)
VARIABLES
    pc,                        \* where the session task is suspended
    now,                       \* the wall clock, in seconds
    wake,                      \* when the pending asyncio.sleep ends
    connected,                 \* the transport is up
    inbox,                     \* inbound messages sent and not yet received
    received,                  \* the message receive_json returned last, if any
    sent,                      \* the send_message calls of the latest step of the task
    problem_log,               \* the problem_* messages of the latest sequence
    mode, current_notes, problem_section, score, combo,
    last_hit_time, is_active, is_paused,            \* GameState
    problem_cooldown, freestyle_notes,
    session_start_time, last_problem_trigger_time,  \* GameSession
    scoring,                   \* scoring_service.state
    hits                       \* note_hit messages sent so far

\* AudioProcessorService: _process_in_threadpool and _post_process_notes
VARIABLES
    stage,                     \* where the processing of the audio is
    detected,                  \* per chunk, the raw notes the detector returns
    chunk_index,               \* i of the loop over the chunks
    filtered_notes,            \* the notes the third pass has yet to take
    current_chord, current_chord_time, playable_notes,
    all_notes                  \* the notes of the chunks merged so far

vars == <<pc, now, wake, connected, inbox, received, sent, problem_log,
          mode, current_notes, problem_section, score, combo,
          last_hit_time, is_active, is_paused,
          problem_cooldown, freestyle_notes,
          session_start_time, last_problem_trigger_time, scoring, hits,
          stage, detected, chunk_index, filtered_notes, current_chord,
          current_chord_time, playable_notes, all_notes>>

audioVars == <<stage, detected, chunk_index, filtered_notes, current_chord,
               current_chord_time, playable_notes, all_notes>>

sessionVars == <<pc, now, wake, connected, inbox, received, sent, problem_log,
                 mode, current_notes, problem_section, score, combo,
                 last_hit_time, is_active, is_paused,
                 problem_cooldown, freestyle_notes,
                 session_start_time, last_problem_trigger_time, scoring, hits>>

\* no audio is being processed
AudioIdle ==
    /\ stage = "idle"
    /\ detected = <<>>
    /\ chunk_index = 0
    /\ filtered_notes = <<>>
    /\ current_chord = <<>>
    /\ current_chord_time = 0
    /\ playable_notes = <<>>
    /\ all_notes = <<>>

gameState == <<mode, current_notes, problem_section, score, combo,
               last_hit_time, is_active, is_paused>>

sessionFields == <<problem_cooldown, freestyle_notes,
                   session_start_time, last_problem_trigger_time>>

(***************************************************************************)
(* Inbound messages the client may send.                                   *)
(***************************************************************************)
Note(i, p, s, e) == [id |-> i, pitch |-> p, start |-> s, end |-> e]

\* a riff without ids, not sorted by start
RiffB == << [pitch |-> 47, start |-> 10, end |-> 14],
            [pitch |-> 41, start |-> 0, end |-> 4] >>

\* a riff with a note that has no start
RiffNoStart == << [id |-> 1, pitch |-> 40, end |-> 3] >>

SessionStatePayloads ==
    { [current_notes |-> RiffB], [notes |-> RiffNoStart],
      [mode |-> "problem"], [mode |-> "lobby", score |-> 7 * ScoreUnit, combo |-> 9] }

NoteHitPayloads ==
    { [note_id |-> i, hit_time |-> 1] : i \in {1, 7} } \cup { [hit_time |-> 1] }

InboundMessages ==
    { [type |-> "session_state", payload |-> p] : p \in SessionStatePayloads }
    \cup { [type |-> "note_hit", payload |-> p] : p \in NoteHitPayloads }
    \cup { [type |-> t, payload |-> [x \in {} |-> 0]] :
             t \in {"note_miss", "pause_game", "resume_game", "end_game",
                    "", "riff_mutation"} }

\* GameState()
Init ==
    /\ AudioIdle
    /\ pc = "recv"
    /\ now = StartTime
    /\ wake = 0
    /\ connected = TRUE
    /\ inbox = <<>>
    /\ received = <<>>
    /\ sent = << [type |-> "session_state", ok |-> TRUE,
                  payload |-> [is_active |-> TRUE, mode |-> "waiting", score |-> 0,
                               combo |-> 0, combo_multiplier |-> 2]] >>
    /\ problem_log = <<>>
    /\ mode = "normal"
    /\ current_notes = <<>>
    /\ problem_section = <<>>
    /\ score = 0
    /\ combo = 0
    /\ last_hit_time = <<>>
    /\ is_active = TRUE
    /\ is_paused = FALSE
    /\ problem_cooldown = FALSE
    /\ freestyle_notes = <<>>
    /\ session_start_time = StartTime
    /\ last_problem_trigger_time = 0
    /\ scoring = StartSession
    /\ hits = 0

(***************************************************************************)
(* Outbound messages and the pieces of the handlers.                       *)
(***************************************************************************)
\* send_message: the call is recorded; ok tells whether websocket.send_json
\* went through (a failure is caught and logged inside send_message)
Msg(type, payload) == [type |-> type, ok |-> connected, payload |-> payload]

Types(msgs) == [i \in 1..Len(msgs) |-> msgs[i].type]

\* GameState.serialize
Serialize(m, notes, section, sc, co, hit_time, active, paused) ==
    [mode |-> m, current_notes |-> notes, problem_section |-> section,
     score |-> sc, combo |-> co, last_hit_time |-> hit_time,
     is_active |-> active, is_paused |-> paused]

\* the notes of a session_state payload, entries without id given their index
AssignIds(notes) ==
    [i \in 1..Len(notes) |->
        IF "id" \in DOMAIN notes[i] THEN notes[i]
        ELSE [k \in DOMAIN notes[i] \cup {"id"} |->
                 IF k = "id" THEN i - 1 ELSE notes[i][k]]]

\* n put into the sorted sequence s before the entries that start as late
InsertBeforeEqual(s, n) ==
    LET k == Cardinality({i \in 1..Len(s) : s[i].start < n.start})
    IN  SubSeq(s, 1, k) \o <<n>> \o SubSeq(s, k + 1, Len(s))

\* n put into the sorted sequence s behind every entry that does not start later
InsertByStart(s, n) ==
    LET k == Cardinality({i \in 1..Len(s) : s[i].start <= n.start})
    IN  SubSeq(s, 1, k) \o <<n>> \o SubSeq(s, k + 1, Len(s))

RECURSIVE SortByStartFrom(_, _)
SortByStartFrom(done, rest) ==
    IF rest = <<>> THEN done
    ELSE SortByStartFrom(InsertByStart(done, Head(rest)), Tail(rest))

\* sorted(notes, key=lambda n: n['start']): a stable sort
SortByStart(notes) == SortByStartFrom(<<>>, notes)

\* the key lookup n['start'] succeeds for every note
AllHaveStart(notes) == \A i \in 1..Len(notes) : "start" \in DOMAIN notes[i]

\* the first note of current_notes whose id is note_id, as a sequence of
\* length 0 or 1
MatchingNote(notes, note_id) ==
    LET found == {i \in 1..Len(notes) : notes[i].id = note_id}
    IN  IF found = {} THEN <<>>
        ELSE << notes[CHOOSE i \in found : \A j \in found : i <= j] >>

\* a trigger predicate that does not look at the combo
ShouldTriggerIgnoringCombo(current_time, start_time, last_trigger_time, co) ==
    /\ ~(current_time - start_time < TriggerSessionAge)
    /\ ~(current_time - last_trigger_time < TriggerProblemGap)

\* should_trigger_problem
ShouldTriggerProblem(current_time, start_time, last_trigger_time, co) ==
    /\ ~(current_time - start_time < TriggerSessionAge)
    /\ ~(current_time - last_trigger_time < TriggerProblemGap)
    /\ ~(co < TriggerCombo)

\* the freestyle notes, each once per original note near it
RECURSIVE CopyPerNearNote(_, _)
CopyPerNearNote(original_notes, freestyle) ==
    IF freestyle = <<>> THEN <<>>
    ELSE LET f == Head(freestyle)
             k == Cardinality({i \in 1..Len(original_notes) :
                                 Abs(f.pitch - original_notes[i].pitch) <= 1})
         IN  [j \in 1..k |-> f] \o CopyPerNearNote(original_notes, Tail(freestyle))

\* analyze_freestyle_notes without the break of its inner loop
AnalyzeWithoutBreak(section, freestyle) ==
    IF section # <<>> /\ section[1].original_notes # <<>>
    THEN CopyPerNearNote(section[1].original_notes, freestyle)
    ELSE <<>>

\* analyze_freestyle_notes
AnalyzeFreestyleNotes(section, freestyle) ==
    IF section # <<>> /\ section[1].original_notes # <<>>
    THEN SelectSeq(freestyle,
             LAMBDA f : \E i \in 1..Len(section[1].original_notes) :
                 Abs(f.pitch - section[1].original_notes[i].pitch) <= 1)
    ELSE <<>>

\* the mode end_problem_section returns to
ModeAfterProblem == "game"

\* generate_problem_section: the RiffMutation returned for the current notes
\* (mutated_notes and mutation_type, chosen by the generator, are left out)
GenerateProblemSection(notes, duration) ==
    << [original_notes |-> notes, problem_duration |-> duration] >>

\* the problem_* messages among msgs, behind those logged before
LogProblem(log, msgs) ==
    log \o SelectSeq(Types(msgs),
                     LAMBDA t : t \in {"problem_warning", "problem_start", "problem_end"})

\* the cleanup of websocket_endpoint's finally block
FinalState(m, sc, co) ==
    Msg("session_state", [is_active |-> FALSE, mode |-> m, score |-> sc, combo |-> co])

(***************************************************************************)
(* The environment: the client and the clock.                              *)
(***************************************************************************)
\* m as the client sends it; during records where the session task was then
Stamped(m) == [type |-> m.type, payload |-> m.payload, during |-> pc]

\* the client may send m: the session runs, the client is connected and has
\* note_hit messages left
MaySend(m) ==
    /\ pc # "closed"
    /\ connected
    /\ m.type = "note_hit" => hits < MaxHits

\* the client sends m while the session task is not waiting in receive_json,
\* or behind messages that wait already: m is queued
ClientSend(m) ==
    /\ MaySend(m)
    /\ pc \in {"warning", "problem"} \/ (pc = "recv" /\ inbox # <<>>)
    /\ Len(inbox) < MaxInbox
    /\ hits' = IF m.type = "note_hit" THEN hits + 1 ELSE hits
    /\ inbox' = Append(inbox, Stamped(m))
    /\ UNCHANGED <<audioVars, pc, now, wake, connected, received, sent, problem_log,
                   gameState, sessionFields, scoring>>

ClientDisconnect ==
    /\ pc # "closed"
    /\ connected
    /\ connected' = FALSE
    /\ UNCHANGED <<audioVars, pc, now, wake, inbox, received, sent, problem_log, gameState,
                   sessionFields, scoring, hits>>

\* time passes while the session runs; a pending asyncio.sleep always runs out
Tick ==
    /\ \/ pc # "closed" /\ now < StartTime + MaxTime
       \/ pc \in {"warning", "problem"} /\ now < wake
    /\ now' = now + TickSeconds
    /\ UNCHANGED <<audioVars, pc, wake, connected, inbox, received, sent, problem_log, gameState,
                   sessionFields, scoring, hits>>

(***************************************************************************)
(* websocket_endpoint: one step of the loop per inbound message.           *)
(***************************************************************************)
\* the messages receive_json may return next: the oldest queued one, or, the
\* queue being empty, one the client sends now
Arriving ==
    IF pc # "recv" THEN {}
    ELSE IF inbox # <<>> THEN {Head(inbox)}
    ELSE {Stamped(m) : m \in {x \in InboundMessages : MaySend(x)}}

\* receive_json returns m, one of Arriving
Received(m) ==
    /\ pc = "recv"
    /\ received' = <<m>>
    /\ hits' = IF inbox = <<>> /\ m.type = "note_hit" THEN hits + 1 ELSE hits
    /\ inbox' = IF inbox # <<>> THEN Tail(inbox) ELSE inbox

Receiving(m, type) == Received(m) /\ m.type = type

\* the loop is left without the finally block's message
LeaveLoopWithoutNotice(before) ==
    /\ pc' = "closed"
    /\ is_active' = FALSE
    /\ sent' = before

\* the except and finally blocks: the loop is left, the session marked
\* inactive and the final state sent (mode, score and combo are as the
\* failed or last handler found them)
LeaveLoop(before) ==
    /\ pc' = "closed"
    /\ is_active' = FALSE
    /\ sent' = before \o <<FinalState(mode, score, combo)>>

\* message.get("type") is empty: continue
RecvNoType(m) ==
    /\ Receiving(m, "")
    /\ sent' = <<>>
    /\ UNCHANGED <<audioVars, pc, now, wake, connected, problem_log, gameState,
                   sessionFields, scoring>>

\* a type none of the branches handles
RecvUnhandledType(m) ==
    /\ Received(m)
    /\ m.type \notin {"", "session_state", "note_hit", "note_miss",
                                "pause_game", "resume_game", "end_game"}
    /\ sent' = <<>>
    /\ UNCHANGED <<audioVars, pc, now, wake, connected, problem_log, gameState,
                   sessionFields, scoring>>

NotesKey(payload) ==
    IF "notes" \in DOMAIN payload THEN "notes" ELSE "current_notes"

CarriesNotes(payload) ==
    "notes" \in DOMAIN payload \/ "current_notes" \in DOMAIN payload

\* session_state: the notes are installed sorted, the other fields copied
RecvSessionState(m) ==
    LET payload == m.payload IN
    /\ Receiving(m, "session_state")
    /\ CarriesNotes(payload) => AllHaveStart(payload[NotesKey(payload)])
    /\ current_notes' = IF CarriesNotes(payload)
                        THEN SortByStart(AssignIds(payload[NotesKey(payload)]))
                        ELSE current_notes
    /\ mode' = IF "mode" \in DOMAIN payload THEN payload.mode ELSE mode
    /\ score' = IF "score" \in DOMAIN payload THEN payload.score ELSE score
    /\ combo' = IF "combo" \in DOMAIN payload THEN payload.combo ELSE combo
    /\ sent' = << Msg("session_state",
                      [is_active |-> is_active, mode |-> mode', score |-> score',
                       combo |-> combo',
                       combo_multiplier |-> scoring.combo_multiplier,
                       current_notes |-> current_notes']) >>
    /\ UNCHANGED <<audioVars, pc, now, wake, connected, problem_log, problem_section,
                   last_hit_time, is_active, is_paused, sessionFields,
                   scoring>>

\* session_state with a note that has no start: the sort raises KeyError
RecvSessionStateNoStart(m) ==
    LET payload == m.payload IN
    /\ Receiving(m, "session_state")
    /\ CarriesNotes(payload)
    /\ ~AllHaveStart(payload[NotesKey(payload)])
    /\ LeaveLoop(<<>>)
    /\ UNCHANGED <<audioVars, now, wake, connected, problem_log, mode, current_notes,
                   problem_section, score, combo, last_hit_time, is_paused,
                   sessionFields, scoring>>

\* NoteHitEvent(**payload) with its required fields
ValidNoteHit(payload) == {"note_id", "hit_time"} \subseteq DOMAIN payload

\* note_hit whose payload lacks a required field: NoteHitEvent raises
RecvNoteHitInvalid(m) ==
    /\ Receiving(m, "note_hit")
    /\ ~ValidNoteHit(m.payload)
    /\ LeaveLoop(<<>>)
    /\ UNCHANGED <<audioVars, now, wake, connected, problem_log, mode, current_notes,
                   problem_section, score, combo, last_hit_time, is_paused,
                   sessionFields, scoring>>

\* a valid note_hit reaches handle_note_hit after last_hit_time is set
HandlingNoteHit(m) ==
    /\ Receiving(m, "note_hit")
    /\ ValidNoteHit(m.payload)
    /\ last_hit_time' = << m.payload.hit_time >>

HitNote(m) == MatchingNote(current_notes, m.payload.note_id)

\* a hit that matches no note, answered with an error message
NoteHitUnmatchedReported(m) ==
    /\ HandlingNoteHit(m)
    /\ HitNote(m) = <<>>
    /\ sent' = << Msg("error", [error |-> "Failed to process note hit"]) >>
    /\ UNCHANGED <<audioVars, pc, now, wake, connected, problem_log, mode, current_notes,
                   problem_section, score, combo, is_active, is_paused,
                   sessionFields, scoring>>

\* no note of current_notes has the id: return
NoteHitUnmatched(m) ==
    /\ HandlingNoteHit(m)
    /\ HitNote(m) = <<>>
    /\ sent' = <<>>
    /\ UNCHANGED <<audioVars, pc, now, wake, connected, problem_log, mode, current_notes,
                   problem_section, score, combo, is_active, is_paused,
                   sessionFields, scoring>>

\* mode is "problem": the note is recorded without the echo
NoteHitFreestyleSilent(m) ==
    /\ HandlingNoteHit(m)
    /\ HitNote(m) # <<>>
    /\ mode = "problem"
    /\ freestyle_notes' = Append(freestyle_notes, HitNote(m)[1])
    /\ sent' = <<>>
    /\ UNCHANGED <<audioVars, pc, now, wake, connected, problem_log, mode, current_notes,
                   problem_section, score, combo, is_active, is_paused,
                   problem_cooldown, session_start_time,
                   last_problem_trigger_time, scoring>>

\* mode is "problem": the note is recorded and echoed, scoring is bypassed
NoteHitFreestyle(m) ==
    /\ HandlingNoteHit(m)
    /\ HitNote(m) # <<>>
    /\ mode = "problem"
    /\ freestyle_notes' = Append(freestyle_notes, HitNote(m)[1])
    /\ sent' = << Msg("note_hit", HitNote(m)[1]) >>
    /\ UNCHANGED <<audioVars, pc, now, wake, connected, problem_log, mode, current_notes,
                   problem_section, score, combo, is_active, is_paused,
                   problem_cooldown, session_start_time,
                   last_problem_trigger_time, scoring>>

\* paused: the note is echoed before the return
NoteHitPausedEchoes(m) ==
    /\ HandlingNoteHit(m)
    /\ HitNote(m) # <<>>
    /\ mode # "problem"
    /\ is_paused
    /\ sent' = << Msg("note_hit", HitNote(m)[1]) >>
    /\ UNCHANGED <<audioVars, pc, now, wake, connected, problem_log, mode, current_notes,
                   problem_section, score, combo, is_active, is_paused,
                   sessionFields, scoring>>

\* paused: return
NoteHitPaused(m) ==
    /\ HandlingNoteHit(m)
    /\ HitNote(m) # <<>>
    /\ mode # "problem"
    /\ is_paused
    /\ sent' = <<>>
    /\ UNCHANGED <<audioVars, pc, now, wake, connected, problem_log, mode, current_notes,
                   problem_section, score, combo, is_active, is_paused,
                   sessionFields, scoring>>

\* the two messages of a scored hit the other way round, the snapshot taken
\* before the scores were copied into the state
SnapshotBeforeScore(st, m, notes, section, sc, co, hit_time, active, paused) ==
    << Msg("session_state",
           Serialize(m, notes, section, score, combo, hit_time, active, paused)),
       Msg("score_update",
           [score |-> sc, total_score |-> st.current_score,
            combo |-> st.combo_count, combo_multiplier |-> st.combo_multiplier]) >>

\* the two messages of a scored hit: the score update, then the snapshot
ScoreMessages(st, m, notes, section, sc, co, hit_time, active, paused) ==
    << Msg("score_update",
           [score |-> sc, total_score |-> st.current_score,
            combo |-> st.combo_count, combo_multiplier |-> st.combo_multiplier]),
       Msg("session_state",
           Serialize(m, notes, section, sc, co, hit_time, active, paused)) >>

\* regular scoring of a matched hit, up to the two messages
ScoredHit(m) ==
    /\ HandlingNoteHit(m)
    /\ HitNote(m) # <<>>
    /\ mode # "problem"
    /\ ~is_paused
    /\ scoring' = EvaluateAdaptation(scoring, current_notes, <<HitNote(m)[1]>>,
                                     now * UnitsPerSecond)
    /\ score' = scoring'.current_score
    /\ combo' = scoring'.combo_count

ScoredHitMessages(m) ==
    ScoreMessages(scoring', mode, current_notes, problem_section, score', combo',
                  last_hit_time', is_active, is_paused)

\* the condition under which handle_note_hit enters the problem section
Triggering(co) ==
    /\ ~problem_cooldown
    /\ ShouldTriggerProblem(now, session_start_time, last_problem_trigger_time, co)

\* a scored hit that does not trigger a problem section
NoteHitScored(m) ==
    /\ ScoredHit(m)
    /\ ~Triggering(combo')
    /\ sent' = ScoredHitMessages(m)
    /\ UNCHANGED <<audioVars, pc, now, wake, connected, problem_log, mode, current_notes,
                   problem_section, is_active, is_paused, sessionFields>>

\* a scored hit that triggers a problem section whose generation raises, the
\* exception leaving handle_note_hit: the loop is left
NoteHitProblemUncaught(m) ==
    /\ ScoredHit(m)
    /\ Triggering(combo')
    /\ last_problem_trigger_time' = now
    /\ problem_cooldown' = TRUE
    /\ LeaveLoop(ScoredHitMessages(m))
    /\ problem_log' = LogProblem(<<>>, sent')
    /\ UNCHANGED <<audioVars, now, wake, connected, mode, current_notes, problem_section,
                   is_paused, freestyle_notes, session_start_time>>

\* a scored hit that triggers a problem section whose generation raises: the
\* except block of handle_note_hit reports the error
NoteHitProblemFails(m) ==
    /\ ScoredHit(m)
    /\ Triggering(combo')
    /\ last_problem_trigger_time' = now
    /\ problem_cooldown' = TRUE
    /\ sent' = ScoredHitMessages(m)
                 \o << Msg("error", [error |-> "Failed to process note hit"]) >>
    /\ problem_log' = LogProblem(<<>>, sent')
    /\ UNCHANGED <<audioVars, pc, now, wake, connected, mode, current_notes, problem_section,
                   is_active, is_paused, freestyle_notes, session_start_time>>

\* a scored hit that triggers a problem section: trigger_problem_section up to
\* its first sleep
NoteHitProblemStarts(m) ==
    /\ ScoredHit(m)
    /\ Triggering(combo')
    /\ last_problem_trigger_time' = now
    /\ problem_cooldown' = TRUE
    /\ problem_section' = GenerateProblemSection(current_notes, ProblemSectionDuration)
    /\ sent' = ScoredHitMessages(m)
                 \o << Msg("problem_warning",
                           [warning |-> "Problem section incoming",
                            duration |-> WarningDelay]) >>
    /\ problem_log' = LogProblem(<<>>, sent')
    /\ pc' = "warning"
    /\ wake' = now + WarningDelay
    /\ UNCHANGED <<audioVars, now, connected, mode, current_notes, is_active, is_paused,
                   freestyle_notes, session_start_time>>

\* trigger_problem_section without its first sleep: the section starts at any
\* time after the warning
ProblemStartWithoutSleep ==
    /\ pc = "warning"
    /\ mode' = "problem"
    /\ freestyle_notes' = <<>>
    /\ sent' = << Msg("problem_start", problem_section[1]) >>
    /\ problem_log' = LogProblem(problem_log, sent')
    /\ pc' = "problem"
    /\ wake' = now + problem_section[1].problem_duration
    /\ UNCHANGED <<audioVars, now, connected, inbox, received, current_notes, problem_section, score,
                   combo, last_hit_time, is_active, is_paused, problem_cooldown,
                   session_start_time, last_problem_trigger_time, scoring, hits>>

\* trigger_problem_section after the warning delay, with a send_message that
\* lets a failed send escape: the section is given up
ProblemStartUnlessSendFails ==
    /\ pc = "warning"
    /\ now >= wake
    /\ mode' = "problem"
    /\ freestyle_notes' = <<>>
    /\ sent' = IF connected THEN << Msg("problem_start", problem_section[1]) >>
               ELSE << Msg("error", [error |-> "Failed to process note hit"]) >>
    /\ problem_log' = LogProblem(problem_log, sent')
    /\ pc' = IF connected THEN "problem" ELSE "recv"
    /\ wake' = now + problem_section[1].problem_duration
    /\ UNCHANGED <<audioVars, now, connected, inbox, received, current_notes, problem_section, score,
                   combo, last_hit_time, is_active, is_paused, problem_cooldown,
                   session_start_time, last_problem_trigger_time, scoring, hits>>

\* trigger_problem_section after the warning delay, up to its second sleep
ProblemStart ==
    /\ pc = "warning"
    /\ now >= wake
    /\ mode' = "problem"
    /\ freestyle_notes' = <<>>
    /\ sent' = << Msg("problem_start", problem_section[1]) >>
    /\ problem_log' = LogProblem(problem_log, sent')
    /\ pc' = "problem"
    /\ wake' = now + problem_section[1].problem_duration
    /\ UNCHANGED <<audioVars, now, connected, inbox, received, current_notes, problem_section, score,
                   combo, last_hit_time, is_active, is_paused, problem_cooldown,
                   session_start_time, last_problem_trigger_time, scoring, hits>>

\* current_notes after end_problem_section has merged the good notes
MergedNotes(notes, section, freestyle) ==
    notes \o AnalyzeFreestyleNotes(section, freestyle)

\* the payload of problem_end
ProblemEndPayload(notes) == [mode |-> "game", current_notes |-> notes]

\* end_problem_section that also stamps the trigger time at completion
ProblemEndStampsTrigger ==
    /\ pc = "problem"
    /\ now >= wake
    /\ current_notes' = MergedNotes(current_notes, problem_section, freestyle_notes)
    /\ problem_section' = <<>>
    /\ freestyle_notes' = <<>>
    /\ mode' = ModeAfterProblem
    /\ sent' = << Msg("problem_end", ProblemEndPayload(current_notes')) >>
    /\ problem_log' = LogProblem(problem_log, sent')
    /\ problem_cooldown' = FALSE
    /\ last_problem_trigger_time' = now
    /\ pc' = "recv"
    /\ UNCHANGED <<audioVars, now, wake, connected, inbox, received, score, combo, last_hit_time,
                   is_active, is_paused, session_start_time, scoring, hits>>

\* end_problem_section, after the section's duration; handle_note_hit then
\* returns to the loop
ProblemEnd ==
    /\ pc = "problem"
    /\ now >= wake
    /\ current_notes' = MergedNotes(current_notes, problem_section, freestyle_notes)
    /\ problem_section' = <<>>
    /\ freestyle_notes' = <<>>
    /\ mode' = ModeAfterProblem
    /\ sent' = << Msg("problem_end", ProblemEndPayload(current_notes')) >>
    /\ problem_log' = LogProblem(problem_log, sent')
    /\ problem_cooldown' = FALSE
    /\ pc' = "recv"
    /\ UNCHANGED <<audioVars, now, wake, connected, inbox, received, score, combo, last_hit_time,
                   is_active, is_paused, session_start_time,
                   last_problem_trigger_time, scoring, hits>>

\* note_miss that resets the engine's combo only, the state's combo is kept
MissKeepsStateCombo(m) ==
    /\ Receiving(m, "note_miss")
    /\ scoring' = [scoring EXCEPT !.combo_count = 0, !.combo_multiplier = 2]
    /\ sent' = << Msg("session_state",
                      Serialize(mode, current_notes, problem_section, score, combo,
                                last_hit_time, is_active, is_paused)) >>
    /\ UNCHANGED <<audioVars, pc, now, wake, connected, problem_log, mode, current_notes,
                   problem_section, score, combo, last_hit_time, is_active,
                   is_paused, sessionFields>>

\* note_miss: the combo is reset in the engine and in the state
RecvNoteMiss(m) ==
    /\ Receiving(m, "note_miss")
    /\ scoring' = [scoring EXCEPT !.combo_count = 0, !.combo_multiplier = 2]
    /\ combo' = 0
    /\ sent' = << Msg("session_state",
                      Serialize(mode, current_notes, problem_section, score, combo',
                                last_hit_time, is_active, is_paused)) >>
    /\ UNCHANGED <<audioVars, pc, now, wake, connected, problem_log, mode, current_notes,
                   problem_section, score, last_hit_time, is_active, is_paused,
                   sessionFields>>

SetPaused(m, type, value) ==
    /\ Receiving(m, type)
    /\ is_paused' = value
    /\ sent' = << Msg("session_state",
                      Serialize(mode, current_notes, problem_section, score, combo,
                                last_hit_time, is_active, is_paused')) >>
    /\ UNCHANGED <<audioVars, pc, now, wake, connected, problem_log, mode, current_notes,
                   problem_section, score, combo, last_hit_time, is_active,
                   sessionFields, scoring>>

RecvPauseGame(m) == SetPaused(m, "pause_game", TRUE)

\* resume_game that leaves the session paused
ResumeKeepsPaused(m) == SetPaused(m, "resume_game", TRUE)

RecvResumeGame(m) == SetPaused(m, "resume_game", FALSE)

\* end_game without the break: the summary is sent and the loop goes on
EndGameKeepsLoop(m) ==
    /\ Receiving(m, "end_game")
    /\ is_active' = FALSE
    /\ sent' = << Msg("session_end",
                      [final_score |-> score, final_combo |-> combo,
                       total_notes |-> Len(current_notes),
                       time_played |-> now - session_start_time]) >>
    /\ UNCHANGED <<audioVars, pc, now, wake, connected, problem_log, mode, current_notes,
                   problem_section, score, combo, last_hit_time, is_paused,
                   sessionFields, scoring>>

\* end_game: end_game_session, break, and the finally block
RecvEndGame(m) ==
    /\ Receiving(m, "end_game")
    /\ LeaveLoop(<< Msg("session_end",
                        [final_score |-> score, final_combo |-> combo,
                         total_notes |-> Len(current_notes),
                         time_played |-> now - session_start_time]) >>)
    /\ UNCHANGED <<audioVars, now, wake, connected, problem_log, mode, current_notes,
                   problem_section, score, combo, last_hit_time, is_paused,
                   sessionFields, scoring>>

\* receive_json raises once the client is gone and nothing is left to read
RecvDisconnect ==
    /\ pc = "recv"
    /\ inbox = <<>>
    /\ ~connected
    /\ LeaveLoop(<<>>)
    /\ UNCHANGED <<audioVars, now, wake, connected, inbox, received, problem_log, mode, current_notes,
                   problem_section, score, combo, last_hit_time, is_paused,
                   sessionFields, scoring, hits>>

Next ==
    \/ \E m \in InboundMessages : ClientSend(m)
    \/ ClientDisconnect
    \/ Tick
    \/ \E m \in Arriving : RecvNoType(m)
    \/ \E m \in Arriving : RecvUnhandledType(m)
    \/ \E m \in Arriving : RecvSessionState(m)
    \/ \E m \in Arriving : RecvSessionStateNoStart(m)
    \/ \E m \in Arriving : RecvNoteHitInvalid(m)
    \/ \E m \in Arriving : NoteHitUnmatched(m)
    \/ \E m \in Arriving : NoteHitFreestyle(m)
    \/ \E m \in Arriving : NoteHitPaused(m)
    \/ \E m \in Arriving : NoteHitScored(m)
    \/ \E m \in Arriving : NoteHitProblemFails(m)
    \/ \E m \in Arriving : NoteHitProblemStarts(m)
    \/ ProblemStart
    \/ ProblemEnd
    \/ \E m \in Arriving : RecvNoteMiss(m)
    \/ \E m \in Arriving : RecvPauseGame(m)
    \/ \E m \in Arriving : RecvResumeGame(m)
    \/ \E m \in Arriving : RecvEndGame(m)
    \/ RecvDisconnect

Spec == Init /\ [][Next]_vars

\* asyncio.sleep returns once its time has passed, and the task then runs on
FairSpec ==
    Spec /\ WF_vars(Tick) /\ WF_vars(ProblemStart) /\ WF_vars(ProblemEnd)

(***************************************************************************)
(* end_problem_section on its own: the session sleeps in a problem section *)
(* whose duration has run out, with any original notes and any captured    *)
(* freestyle notes.                                                        *)
(***************************************************************************)
MaxFreestyle == 3

EvalTime == StartTime + MaxTime

\* the riff of the session, with ids, sorted by start
RiffC == SortByStart(AssignIds(RiffB))

FreestylePool == { Note(i, p, i, i + 2) : i \in {1}, p \in {40, 41, 42, 45} }

OriginalChoices ==
    { <<>>, << Note(0, 40, 0, 4) >>, << Note(0, 40, 0, 4), Note(1, 42, 10, 14) >> }

FreestyleChoices ==
    UNION { [1..n -> FreestylePool] : n \in 0..MaxFreestyle }

InitEval ==
    /\ AudioIdle
    /\ pc = "problem"
    /\ now = EvalTime
    /\ wake = EvalTime
    /\ connected = TRUE
    /\ inbox = <<>>
    /\ received = << Stamped([type |-> "note_hit",
                              payload |-> [note_id |-> 1, hit_time |-> 1]]) >>
    /\ \E o \in OriginalChoices :
          /\ problem_section = GenerateProblemSection(o, ProblemSectionDuration)
          /\ sent = << Msg("problem_start", problem_section[1]) >>
    /\ problem_log = << "problem_warning", "problem_start" >>
    /\ mode = "problem"
    /\ current_notes = RiffC
    /\ score = 0
    /\ combo = TriggerCombo
    /\ last_hit_time = << 1 >>
    /\ is_active = TRUE
    /\ is_paused = FALSE
    /\ problem_cooldown = TRUE
    /\ freestyle_notes \in FreestyleChoices
    /\ session_start_time = StartTime
    /\ last_problem_trigger_time = EvalTime - WarningDelay - ProblemSectionDuration
    /\ scoring = [StartSession EXCEPT !.combo_count = TriggerCombo]
    /\ hits = TriggerCombo

NextEval == ProblemEnd

SpecEval == InitEval /\ [][NextEval]_vars

(***************************************************************************)
(* The session_state handler on its own: a fresh session that receives     *)
(* note lists, with and without ids, with equal and with different starts. *)
(***************************************************************************)
MaxNotes == 3

SyncPool ==
    { [pitch |-> 40, start |-> 10, end |-> 14],
      [id |-> 5, pitch |-> 41, start |-> 0, end |-> 4],
      [pitch |-> 42, start |-> 0, end |-> 4],
      [id |-> 0, pitch |-> 43, start |-> 10, end |-> 14] }

SyncLists == UNION { [1..n -> SyncPool] : n \in 0..MaxNotes }

SyncMessages ==
    { [type |-> "session_state", payload |-> [k \in {key} |-> notes]] :
        key \in {"notes", "current_notes"}, notes \in SyncLists }

NextSync == \E m \in SyncMessages : RecvSessionState(Stamped(m))

SpecSync == Init /\ [][NextSync]_vars

(***************************************************************************)
(* ScoringService on its own: a fresh engine that is called with           *)
(* evaluate_adaptation (the three components of the call given, so that    *)
(* every base score of interest occurs), reset_combo and update_difficulty.*)
(***************************************************************************)
MaxEvals == 7

\* <<reaction, rhythm, creativity>> of a call, in thirds of a point: base
\* scores 100, 90, 50 and 20
EngineComponents ==
    { << 300, 300, 300 >>, << 300, 300, 200 >>, << 300, 60, 40 >>, << 60, 60, 60 >> }

EnginePlayerNotes == << Note(0, 40, 0, 4) >>

\* evaluate_adaptation, its components being c
EngineEvaluate(c) ==
    /\ hits < MaxEvals
    /\ hits' = hits + 1
    /\ scoring' = EvaluateWith(scoring, c[1] * (ScoreUnit \div 3),
                               c[2] * (ScoreUnit \div 3), c[3] * (ScoreUnit \div 3),
                               EnginePlayerNotes)
    /\ UNCHANGED <<audioVars, pc, now, wake, connected, inbox, received, sent, problem_log,
                   gameState, sessionFields>>

\* reset_combo
EngineResetCombo ==
    /\ scoring' = [scoring EXCEPT !.combo_count = 0, !.combo_multiplier = 2]
    /\ UNCHANGED <<audioVars, pc, now, wake, connected, inbox, received, sent, problem_log,
                   gameState, sessionFields, hits>>

\* update_difficulty that sets whatever level it is given
UpdateDifficultyUnchecked(st, d) ==
    [state |-> [st EXCEPT !.difficulty = d], raised |-> ""]

\* update_difficulty: the engine's state after the call and the exception
\* the caller gets ("" when it returns)
UpdateDifficulty(st, d) ==
    IF d \notin Difficulties
    THEN [state |-> st, raised |-> "ValueError"]
    ELSE [state |-> [st EXCEPT !.difficulty = d], raised |-> ""]

\* update_difficulty, called before the first evaluation
EngineUpdateDifficulty(d) ==
    /\ hits = 0
    /\ scoring' = UpdateDifficulty(scoring, d).state
    /\ UNCHANGED <<audioVars, pc, now, wake, connected, inbox, received, sent, problem_log,
                   gameState, sessionFields, hits>>

NextEngine ==
    \/ \E c \in EngineComponents : EngineEvaluate(c)
    \/ EngineResetCombo
    \/ \E d \in Difficulties \cup {"insane"} : EngineUpdateDifficulty(d)

SpecEngine == Init /\ [][NextEngine]_vars

(***************************************************************************)
(* evaluate_adaptation on its arguments: a fresh engine called with one    *)
(* player note at a time, as handle_note_hit calls it, the note starting   *)
(* at a chosen delay after the reference time.                             *)
(***************************************************************************)
MaxAdapt == 6

\* mutation_time of the calls, in units of 0.05 s
ReferenceTime == 0

\* the reference notes: one note of pitch 40 from 0 to 0.5 s, or two notes
AdaptReferences == { << Note(0, 40, 0, 10) >>, RiffC }

\* the start of the player note, in units of 0.05 s
AdaptStarts == {1, 3, 5, 10}

InitAdapt ==
    /\ AudioIdle
    /\ pc = "recv"
    /\ now = StartTime
    /\ wake = 0
    /\ connected = TRUE
    /\ inbox = <<>>
    /\ received = <<>>
    /\ sent = <<>>
    /\ problem_log = <<>>
    /\ mode = "normal"
    /\ current_notes \in AdaptReferences
    /\ problem_section = <<>>
    /\ score = 0
    /\ combo = 0
    /\ last_hit_time = <<>>
    /\ is_active = TRUE
    /\ is_paused = FALSE
    /\ problem_cooldown = FALSE
    /\ freestyle_notes = <<>>
    /\ session_start_time = StartTime
    /\ last_problem_trigger_time = 0
    /\ scoring = StartSession
    /\ hits = 0

\* evaluate_adaptation(current_notes, [a note that starts at s], ReferenceTime)
AdaptEvaluate(s) ==
    /\ hits < MaxAdapt
    /\ hits' = hits + 1
    /\ scoring' = EvaluateAdaptation(scoring, current_notes,
                                     << Note(0, 40, s, s + 10) >>, ReferenceTime)
    /\ UNCHANGED <<audioVars, pc, now, wake, connected, inbox, received, sent, problem_log,
                   gameState, sessionFields>>

NextAdapt == \E s \in AdaptStarts : AdaptEvaluate(s)

SpecAdapt == InitAdapt /\ [][NextAdapt]_vars

(***************************************************************************)
(* AudioProcessorService: the loop over the chunks of                      *)
(* _process_in_threadpool and the passes of _post_process_notes.  Times    *)
(* are in milliseconds.  The detector (preprocess_audio, predict,          *)
(* process_predictions) is an input: what it returns for each chunk, with  *)
(* the chunk's time_offset already added.                                  *)
(***************************************************************************)
NumChunks == 2
MaxRaw == 5

ChunkDuration == 12 * 1000
Overlap == 2 * 1000
Hop == ChunkDuration - Overlap

MinDuration == 100
MaxDuration == 2000
MinVelocity == 50
MinGapPerString == 250
MaxSimultaneous == 4
MaxNotesPerWindow == 3
WindowLength == 1000
TimeSpread == 1

\* GuitarString, in the order of the enumeration
GuitarStrings == << "E", "A", "D", "G", "B", "e" >>

\* _determine_string
DetermineString(pitch) ==
    IF pitch < 40 THEN "E"
    ELSE IF pitch < 45 THEN "A"
    ELSE IF pitch < 50 THEN "D"
    ELSE IF pitch < 55 THEN "G"
    ELSE IF pitch < 59 THEN "B"
    ELSE "e"

RawNote(p, v, s, e) == [pitch |-> p, velocity |-> v, start |-> s, end |-> e]

\* raw notes a detector may return, around the end of the first hop: four on
\* string A, three on D, two on G, one on E and on B, one that is too soft,
\* one without velocity and one without pitch
RawPool ==
    { RawNote(40, 80, 9500, 9700), RawNote(41, 80, 9700, 9900),
      RawNote(42, 80, 9900, 10100), RawNote(43, 80, 10000, 10200),
      RawNote(45, 80, 9900, 10300), RawNote(46, 80, 9900, 10100),
      RawNote(47, 80, 10100, 10300),
      RawNote(50, 80, 9990, 10190), RawNote(51, 80, 10010, 10210),
      RawNote(39, 80, 9900, 10100), RawNote(55, 80, 9950, 10150),
      RawNote(53, 40, 9000, 9200),
      [pitch |-> 52, start |-> 9000, end |-> 9200],
      [velocity |-> 80, start |-> 9100, end |-> 9300] }

\* what chunk i (from 0) can hold: the notes that start within its 12 s
ChunkPool(i) ==
    { n \in RawPool : i * Hop <= n.start /\ n.start < i * Hop + ChunkDuration }

RECURSIVE Detections(_)
Detections(n) ==
    IF n = 0 THEN { <<>> }
    ELSE { Append(d, S) : d \in Detections(n - 1),
                          S \in { T \in SUBSET ChunkPool(n - 1) :
                                    Cardinality(T) <= MaxRaw } }

\* a key lookup of _detect_notes_in_chunk or _post_process_notes fails:
\* note['start'], note['end'] (138-139), note['pitch'] (162), and
\* note['velocity'] (180) where the duration tests before it pass
RaisesKeyError(raw_notes) ==
    \E n \in raw_notes :
        \/ ~({"start", "end", "pitch"} \subseteq DOMAIN n)
        \/ /\ "velocity" \notin DOMAIN n
           /\ n.end - n.start >= MinDuration
           /\ n.end - n.start <= MaxDuration

\* note['string'] = self._determine_string(note['pitch'])
WithString(n) ==
    [x \in DOMAIN n \cup {"string"} |->
        IF x = "string" THEN DetermineString(n.pitch) ELSE n[x]]

\* sorted(raw_notes, key=lambda x: (x['start'], x['pitch']))
RECURSIVE SortByStartPitch(_)
SortByStartPitch(S) ==
    IF S = {} THEN <<>>
    ELSE LET m == CHOOSE x \in S :
                    \A y \in S : \/ x.start < y.start
                                 \/ x.start = y.start /\ x.pitch <= y.pitch
         IN  <<m>> \o SortByStartPitch(S \ {m})

\* the test of the first pass
KeptByBasicFilter(note) ==
    /\ note.end - note.start >= MinDuration
    /\ note.end - note.start <= MaxDuration
    /\ note.velocity >= MinVelocity

\* the sliding window of the second pass over the notes of one string
RECURSIVE RateLimitString(_, _)
RateLimitString(notes_list, window_notes) ==
    IF notes_list = <<>> THEN <<>>
    ELSE LET note == Head(notes_list)
             InWindow(n) == n.start > note.start - WindowLength
             window == SelectSeq(window_notes, InWindow)
         IN  IF Len(window) < MaxNotesPerWindow
             THEN <<note>> \o RateLimitString(Tail(notes_list), Append(window, note))
             ELSE RateLimitString(Tail(notes_list), window)

\* rate_limited_notes: string by string
RECURSIVE RateLimited(_, _)
RateLimited(notes, k) ==
    IF k > Len(GuitarStrings) THEN <<>>
    ELSE LET OnString(n) == n.string = GuitarStrings[k]
         IN  RateLimitString(SortByStart(SelectSeq(notes, OnString)), <<>>)
                \o RateLimited(notes, k + 1)

\* the first and the second pass: the notes the third pass goes through
FilteredNotes(raw_notes) ==
    LET withStrings == { WithString(n) : n \in raw_notes }
        notes == SortByStartPitch(withStrings)
    IN  SortByStart(RateLimited(SelectSeq(notes, KeptByBasicFilter), 1))

\* chord_notes.sort(key=lambda x: x['pitch']): a stable sort
RECURSIVE SortByPitchFrom(_, _)
SortByPitchFrom(done, rest) ==
    IF rest = <<>> THEN done
    ELSE LET n == Head(rest)
             k == Cardinality({i \in 1..Len(done) : done[i].pitch <= n.pitch})
         IN  SortByPitchFrom(SubSeq(done, 1, k) \o <<n>> \o SubSeq(done, k + 1, Len(done)),
                             Tail(rest))

\* _adjust_chord_timing (avg_duration is kept to the millisecond)
AdjustChordTiming(chord_notes) ==
    IF chord_notes = <<>> THEN <<>>
    ELSE LET sorted == SortByPitchFrom(<<>>, chord_notes)
             avg_duration ==
                 SumSeq([i \in 1..Len(sorted) |-> sorted[i].end - sorted[i].start])
                    \div Len(sorted)
             start_time == SeqMin(Starts(sorted))
         IN  [i \in 1..Len(sorted) |->
                [sorted[i] EXCEPT
                    !.start = start_time + (i - 1) * TimeSpread,
                    !.end = start_time + (i - 1) * TimeSpread + avg_duration]]

\* the body of the loop of the third pass, for one note; c holds
\* current_chord, current_chord_time and playable_notes
ChordStep(c, note) ==
    LET new_chord == note.start - c.current_chord_time > MinGapPerString
        chord == IF new_chord THEN <<>> ELSE c.current_chord
        chord_time == IF new_chord THEN note.start ELSE c.current_chord_time
        playable == IF new_chord
                    THEN c.playable_notes \o AdjustChordTiming(c.current_chord)
                    ELSE c.playable_notes
    IN  IF /\ Len(chord) < MaxSimultaneous
           /\ \A k \in 1..Len(chord) : chord[k].string # note.string
        THEN [current_chord |-> Append(chord, note),
              current_chord_time |-> chord_time,
              playable_notes |-> playable]
        ELSE [current_chord |-> <<>>,
              current_chord_time |-> chord_time,
              playable_notes |-> playable \o AdjustChordTiming(chord) \o <<note>>]

\* the filter of the overlap region and all_notes.extend
MergedWith(notes, i, processed_notes) ==
    LET InRegion(n) == n.start < (i + 1) * Hop
    IN  notes \o (IF i < NumChunks - 1 THEN SelectSeq(processed_notes, InRegion)
                  ELSE processed_notes)

\* the third pass over notes, from the state c of its loop
RECURSIVE ChordPass(_, _)
ChordPass(c, notes) ==
    IF notes = <<>> THEN c.playable_notes \o AdjustChordTiming(c.current_chord)
    ELSE ChordPass(ChordStep(c, Head(notes)), Tail(notes))

\* _post_process_notes
PostProcessNotes(raw_notes) ==
    IF raw_notes = {} THEN <<>>
    ELSE ChordPass([current_chord |-> <<>>, current_chord_time |-> 0,
                    playable_notes |-> <<>>],
                   FilteredNotes(raw_notes))

\* all_notes after the chunks from i on, given what each chunk's detector
\* returned
RECURSIVE ProcessChunks(_, _, _)
ProcessChunks(notes, i, raw) ==
    IF i >= NumChunks THEN notes
    ELSE ProcessChunks(MergedWith(notes, i, PostProcessNotes(raw[i + 1])), i + 1, raw)

InitAudio ==
    /\ pc = "recv"
    /\ now = StartTime
    /\ wake = 0
    /\ connected = TRUE
    /\ inbox = <<>>
    /\ received = <<>>
    /\ sent = <<>>
    /\ problem_log = <<>>
    /\ mode = "normal"
    /\ current_notes = <<>>
    /\ problem_section = <<>>
    /\ score = 0
    /\ combo = 0
    /\ last_hit_time = <<>>
    /\ is_active = TRUE
    /\ is_paused = FALSE
    /\ problem_cooldown = FALSE
    /\ freestyle_notes = <<>>
    /\ session_start_time = StartTime
    /\ last_problem_trigger_time = 0
    /\ scoring = StartSession
    /\ hits = 0
    /\ stage = "detect"
    /\ detected \in Detections(NumChunks)
    /\ chunk_index = 0
    /\ filtered_notes = <<>>
    /\ current_chord = <<>>
    /\ current_chord_time = 0
    /\ playable_notes = <<>>
    /\ all_notes = <<>>

\* _detect_notes_in_chunk up to the third pass of _post_process_notes; a
\* KeyError leaves process_audio_chunk as a RuntimeError
DetectChunk ==
    /\ stage = "detect"
    /\ IF RaisesKeyError(detected[chunk_index + 1])
       THEN /\ stage' = "failed"
            /\ UNCHANGED filtered_notes
       ELSE /\ stage' = "chords"
            /\ filtered_notes' = FilteredNotes(detected[chunk_index + 1])
    /\ current_chord' = <<>>
    /\ current_chord_time' = 0
    /\ playable_notes' = <<>>
    /\ UNCHANGED <<sessionVars, detected, chunk_index, all_notes>>

\* one round of the loop of the third pass
ChordNote ==
    /\ stage = "chords"
    /\ filtered_notes # <<>>
    /\ LET c == ChordStep([current_chord |-> current_chord,
                           current_chord_time |-> current_chord_time,
                           playable_notes |-> playable_notes],
                          Head(filtered_notes))
       IN  /\ current_chord' = c.current_chord
           /\ current_chord_time' = c.current_chord_time
           /\ playable_notes' = c.playable_notes
    /\ filtered_notes' = Tail(filtered_notes)
    /\ UNCHANGED <<sessionVars, stage, detected, chunk_index, all_notes>>

\* the end of _post_process_notes and the rest of the round of the loop
\* over the chunks
MergeChunk ==
    /\ stage = "chords"
    /\ filtered_notes = <<>>
    /\ all_notes' = MergedWith(all_notes, chunk_index,
                               playable_notes \o AdjustChordTiming(current_chord))
    /\ chunk_index' = chunk_index + 1
    /\ stage' = IF chunk_index + 1 < NumChunks THEN "detect" ELSE "done"
    /\ current_chord' = <<>>
    /\ current_chord_time' = 0
    /\ playable_notes' = <<>>
    /\ UNCHANGED <<sessionVars, detected, filtered_notes>>

NextAudio == DetectChunk \/ ChordNote \/ MergeChunk

SpecAudio == InitAudio /\ [][NextAudio]_vars

(***************************************************************************)
(* Properties of the problem-section sequence.                             *)
(***************************************************************************)
\* what the steps below read off the states
Sleeping == pc \in {"warning", "problem"}

LastSent == sent[Len(sent)]

\* this step takes the queued message Head(inbox) out of receive_json
TakesQueued ==
    /\ pc = "recv"
    /\ inbox # <<>>
    /\ inbox' = Tail(inbox)

\* C1: a note_hit that the client sends while a problem section is in progress
\* (after problem_start, before problem_end) is handled while mode is
\* "problem": it is appended to freestyle_notes, ahead of the evaluation.
\* The code does not do this: the receive loop is held inside
\* handle_note_hit until end_problem_section has returned.
C1_HitDuringProblemIsCaptured ==
    [][ (/\ TakesQueued
         /\ Head(inbox).type = "note_hit"
         /\ Head(inbox).during = "problem"
         /\ ValidNoteHit(Head(inbox).payload)
         /\ HitNote(Head(inbox)) # <<>>)
        => (/\ mode = "problem"
            /\ problem_section # <<>>
            /\ freestyle_notes' = Append(freestyle_notes, HitNote(Head(inbox))[1])) ]_vars

\* C2: a problem-section sequence sends problem_warning, then after the 5 s
\* sleep problem_start, then after the section's duration problem_end, each
\* once; within the sequence mode is "problem" exactly between the
\* problem_start step and the evaluation, and freestyle_notes is empty when
\* mode becomes "problem".
C2_SequenceOrder ==
    /\ pc = "warning" =>
          /\ problem_log = << "problem_warning" >>
          /\ LastSent.type = "problem_warning"
          /\ mode # "problem"
          /\ wake = last_problem_trigger_time + WarningDelay
    /\ pc = "problem" =>
          /\ problem_log = << "problem_warning", "problem_start" >>
          /\ Types(sent) = << "problem_start" >>
          /\ mode = "problem"
          /\ freestyle_notes = <<>>
          /\ wake >= last_problem_trigger_time + WarningDelay + ProblemSectionDuration
    /\ ~Sleeping =>
          /\ problem_log \in { <<>>, << "problem_warning", "problem_start", "problem_end" >> }
          /\ \A i \in 1..Len(sent) :
                sent[i].type \notin {"problem_warning", "problem_start"}
          /\ \A i \in 1..Len(sent) : sent[i].type = "problem_end" =>
                /\ Len(sent) = 1
                /\ mode # "problem"
                /\ now >= last_problem_trigger_time + WarningDelay
                              + ProblemSectionDuration

\* C2: a sequence has run to its end
C2_Witness ==
    /\ pc = "recv"
    /\ Types(sent) = << "problem_end" >>
    /\ problem_log = << "problem_warning", "problem_start", "problem_end" >>
    /\ mode # "problem"

\* C3: the sequence is entered only in the step that scored a hit, and only
\* when at that moment the cooldown flag is clear, the session is at least
\* 15 s old, the last trigger is at least 15 s ago and the combo is at least
\* 5; with session start and last trigger at T the predicate holds for combo
\* 5 at T+16 and fails for combo 4 at T+16 and for combo 5 at T+14.
C3_TriggerOnlyWhenDue ==
    /\ ShouldTriggerProblem(StartTime + 16, StartTime, StartTime, 5)
    /\ ~ShouldTriggerProblem(StartTime + 16, StartTime, StartTime, 4)
    /\ ~ShouldTriggerProblem(StartTime + 14, StartTime, StartTime, 5)
    /\ [][ (problem_cooldown' /\ ~problem_cooldown) \/ (pc' = "warning" /\ pc # "warning")
           => (/\ pc = "recv"
               /\ received'[1].type = "note_hit"
               /\ sent'[1].type = "score_update"
               /\ scoring'.current_score > scoring.current_score
               /\ ~problem_cooldown
               /\ now - session_start_time >= 15
               /\ now - last_problem_trigger_time >= 15
               /\ combo' >= 5
               /\ last_problem_trigger_time' = now) ]_vars

\* C3: a sequence has been entered on a fifth hit in a row
C3_Witness ==
    /\ pc = "warning"
    /\ problem_cooldown
    /\ combo = 5
    /\ last_problem_trigger_time = now

\* C4: a scored hit (mode not "problem", not paused) sends score_update and
\* then the session_state snapshot with nothing between them, and the two
\* carry the same score and the same combo.
C4_ScoreThenSnapshot ==
    /\ [](\A i \in 1..Len(sent) : sent[i].type = "score_update" =>
            /\ i = 1
            /\ Len(sent) >= 2
            /\ sent[2].type = "session_state"
            /\ sent[2].payload.score = sent[1].payload.score
            /\ sent[2].payload.combo = sent[1].payload.combo
            /\ sent[2].payload.mode # "problem"
            /\ ~sent[2].payload.is_paused)
    /\ [][ scoring'.current_score # scoring.current_score
           => (/\ mode # "problem" /\ ~is_paused
               /\ Len(sent') >= 2
               /\ sent'[1].type = "score_update"
               /\ sent'[1].payload.score = score'
               /\ sent'[1].payload.combo = combo') ]_vars

\* C4: a scored hit with a combo under way has sent its two messages
C4_Witness ==
    /\ Types(sent) = << "score_update", "session_state" >>
    /\ sent[1].payload.combo = 3
    /\ sent[2].payload.combo = 3
    /\ sent[1].payload.score > 0


\* the freestyle notes that have an original note within a semitone, by
\* position
GoodAt(section, freestyle) ==
    { i \in 1..Len(freestyle) :
        \E j \in 1..Len(section[1].original_notes) :
            freestyle[i].pitch - section[1].original_notes[j].pitch \in {-1, 0, 1} }

\* the position in freestyle of the k-th good note
GoodIndex(section, freestyle, k) ==
    CHOOSE i \in GoodAt(section, freestyle) :
        Cardinality({j \in GoodAt(section, freestyle) : j <= i}) = k

\* C5: the evaluation at the end of a problem section keeps the notes of
\* current_notes and appends to them exactly the captured freestyle notes
\* that have an original note of the section within one semitone, each once
\* and in the order of capture; the other freestyle notes are not appended.
C5_GoodNotesAppended ==
    [][ (pc = "problem" /\ pc' # "problem")
        => LET good == GoodAt(problem_section, freestyle_notes)
               n == Len(current_notes)
           IN  /\ Len(current_notes') = n + Cardinality(good)
               /\ SubSeq(current_notes', 1, n) = current_notes
               /\ \A k \in 1..Cardinality(good) :
                     current_notes'[n + k]
                       = freestyle_notes[GoodIndex(problem_section, freestyle_notes, k)] ]_vars

\* C5: an evaluation has appended two of three captured notes
C5_Witness ==
    /\ pc = "recv"
    /\ Types(sent) = << "problem_end" >>
    /\ Len(current_notes) = Len(RiffC) + 2
    /\ current_notes[Len(RiffC) + 1].pitch = 41
    /\ current_notes[Len(RiffC) + 2].pitch = 40
    /\ sent[1].payload.current_notes = current_notes

\* C6: when a problem section ends the mode is "normal", problem_section is
\* null and problem_end carries mode "normal" and the merged current_notes.
\* The code sets and sends "game".
C6_EndsInNormal ==
    \A i \in 1..Len(sent) : sent[i].type = "problem_end" =>
        /\ mode = "normal"
        /\ problem_section = <<>>
        /\ sent[i].payload.mode = "normal"
        /\ sent[i].payload.current_notes = current_notes

\* C7: the cooldown flag is set exactly while a sequence is in flight; with no
\* sequence in flight, also after one that ended because the generator
\* failed, it is clear.  The code leaves it set after a failed generation.
C7_CooldownOnlyInFlight ==
    problem_cooldown <=> Sleeping

\* this step is one turn of the loop for a message of a connected client, left
\* in received
HandlesMessage ==
    /\ pc = "recv"
    /\ connected /\ connected'
    /\ now' = now
    /\ Len(inbox') <= Len(inbox)
    /\ received' # <<>>

Malformed(m) ==
    \/ m.type \notin {"session_state", "note_hit", "note_miss", "pause_game",
                      "resume_game", "end_game"}
    \/ m.type = "note_hit" /\ ~ValidNoteHit(m.payload)
    \/ /\ m.type = "session_state"
       /\ CarriesNotes(m.payload)
       /\ ~AllHaveStart(m.payload[NotesKey(m.payload)])

\* C8: when the generator fails as the sequence asks for a problem section,
\* the failure is caught: mode is what it was when the hit was scored (regular
\* play, not "problem"), problem_section is null, neither problem_warning nor
\* problem_start is sent for the attempt, and the loop stays in receive_json
\* for the next message.
C8_FailureIsCaught ==
    [][ (~problem_cooldown /\ problem_cooldown' /\ problem_section' = <<>>)
        => (/\ pc' = "recv"
            /\ is_active'
            /\ Types(sent') = << "score_update", "session_state", "error" >>
            /\ mode' = mode
            /\ mode' # "problem"
            /\ problem_log' = <<>>) ]_vars

\* C8: a failed attempt in regular play
C8_Witness ==
    /\ Types(sent) = << "score_update", "session_state", "error" >>
    /\ problem_section = <<>>
    /\ mode = "normal"
    /\ pc = "recv"
    /\ combo >= TriggerCombo

\* C9: a malformed inbound message (no type, an unknown type, a note_hit
\* without note_id, a session_state note without start) is ignored: the
\* session state and the scoring state are as before and the loop goes on.
\* The code leaves the loop on the last two.
C9_MalformedIgnored ==
    [][ (HandlesMessage /\ Malformed(received'[1]))
        => (/\ gameState' = gameState
            /\ sessionFields' = sessionFields
            /\ scoring' = scoring
            /\ pc' = "recv") ]_vars

\* C10: failing sends do not stop the sequence: once it has sent (or tried
\* to send) problem_warning it leaves the warning step only by switching mode
\* to "problem" and the problem step only by the evaluation, and it does go
\* on to both, after which mode is regular play again and the cooldown flag
\* is clear.
C10_SequenceCompletes ==
    /\ [][ (Sleeping /\ pc' # pc)
           => \/ pc = "warning" /\ pc' = "problem" /\ mode' = "problem"
              \/ pc = "problem" /\ pc' = "recv" /\ ~problem_cooldown' ]_vars
    /\ (pc = "warning") ~> (pc = "problem" /\ mode = "problem")
    /\ (pc = "warning")
         ~> (/\ pc = "recv"
             /\ problem_log = << "problem_warning", "problem_start", "problem_end" >>
             /\ Types(sent) = << "problem_end" >>
             /\ mode # "problem"
             /\ ~problem_cooldown)

\* C10: a sequence has ended although the client was gone
C10_Witness ==
    /\ pc = "recv"
    /\ Types(sent) = << "problem_end" >>
    /\ ~sent[1].ok
    /\ mode # "problem"
    /\ ~problem_cooldown

(***************************************************************************)
(* Properties of the loop: its exits and the handlers of single messages.  *)
(***************************************************************************)
\* this step is one turn of the loop that changed something: the message it
\* took out of receive_json is received'[1]
TakesMessage ==
    /\ pc = "recv"
    /\ now' = now
    /\ connected' = connected
    /\ Len(inbox') <= Len(inbox)
    /\ connected \/ inbox # <<>>
    /\ received' # <<>>
    /\ vars' # vars

SendFailed == \E i \in 1..Len(sent) : ~sent[i].ok

\* the client has ended the session: it is gone, or its end_game waits
EndedByClient ==
    \/ ~connected
    \/ \E i \in 1..Len(inbox) : inbox[i].type = "end_game"

\* C11: when sending an outbound message fails the session is marked
\* inactive and the loop is left; no inbound message is handled after the
\* failed send.  The code logs the failure inside send_message and goes on.
C11_SendFailureEndsSession ==
    /\ [](SendFailed => (pc = "closed" /\ ~is_active))
    /\ [][ SendFailed => ~TakesMessage ]_vars

\* C12: however the loop is left (end_game, a disconnect seen by
\* receive_json, an exception of a handler), the session is marked inactive
\* and the last outbound message of the session is one session_state with
\* is_active false; nothing is sent after it.
C12_FinalNotice ==
    /\ [](pc = "closed" =>
            /\ ~is_active
            /\ sent # <<>>
            /\ LastSent.type = "session_state"
            /\ LastSent.payload
                 = [is_active |-> FALSE, mode |-> mode, score |-> score, combo |-> combo]
            /\ Cardinality({i \in 1..Len(sent) :
                             /\ sent[i].type = "session_state"
                             /\ ~sent[i].payload.is_active}) = 1)
    /\ [][ pc = "closed" => (sent' = sent /\ pc' = "closed") ]_vars
    /\ [][ pc' # pc => \/ pc' = "closed" /\ pc = "recv"
                       \/ pc' = "warning" /\ pc = "recv"
                       \/ pc' = "problem" /\ pc = "warning"
                       \/ pc' = "recv" /\ pc = "problem" ]_vars

\* C12: the loop has been left by the exception of a note_hit without note_id
C12_Witness ==
    /\ pc = "closed"
    /\ received # <<>>
    /\ received[1].type = "note_hit"
    /\ ~ValidNoteHit(received[1].payload)
    /\ Len(sent) = 1
    /\ score > 0

\* C13: end_game sends exactly one session_end, with the score, the combo
\* and the number of current notes of that moment, marks the session
\* inactive and ends the loop; nothing is received afterwards.
C13_EndGameIsFinal ==
    /\ [][ (TakesMessage /\ received'[1].type = "end_game")
           => (/\ pc' = "closed"
               /\ ~is_active'
               /\ Len(sent') = 2
               /\ sent'[1].type = "session_end"
               /\ sent'[1].payload.final_score = score
               /\ sent'[1].payload.final_combo = combo
               /\ sent'[1].payload.total_notes = Len(current_notes)
               /\ sent'[2].type # "session_end"
               /\ score' = score /\ combo' = combo /\ current_notes' = current_notes) ]_vars
    /\ [][ pc = "closed"
           => (/\ pc' = "closed"
               /\ received' = received
               /\ gameState' = gameState
               /\ scoring' = scoring) ]_vars

\* C13: a session with a score, a combo and notes has been ended by end_game
C13_Witness ==
    /\ pc = "closed"
    /\ Types(sent) = << "session_end", "session_state" >>
    /\ sent[1].payload.final_combo = 2
    /\ sent[1].payload.final_score > 0
    /\ sent[1].payload.total_notes = 2
    /\ ~is_active

\* C14: when the client ends the session (end_game, or a disconnect) while
\* a sleep of the problem section is pending, the sleep is cancelled: the
\* section neither starts nor ends afterwards.  The code has no
\* cancellation: the sequence runs to its end first.
C14_EndCancelsSleep ==
    [][ (Sleeping /\ EndedByClient)
        => (/\ ~(pc = "warning" /\ pc' = "problem")
            /\ ~(pc = "problem" /\ pc' = "recv")
            /\ mode' = mode) ]_vars

\* C15: last_problem_trigger_time is set to the time of entry, in the step
\* that enters the sequence, and by no other step (not when the sequence
\* ends); so two entries in a row are at least 15 s apart, entry to entry.
C15_TriggerTimeAtEntry ==
    /\ [][ (problem_cooldown' /\ ~problem_cooldown)
           => last_problem_trigger_time' = now ]_vars
    /\ [][ last_problem_trigger_time' # last_problem_trigger_time
           => (/\ problem_cooldown' /\ ~problem_cooldown
               /\ pc = "recv"
               /\ last_problem_trigger_time' = now
               /\ now - last_problem_trigger_time >= TriggerProblemGap) ]_vars
    /\ [][ (pc = "problem" /\ pc' = "recv")
           => last_problem_trigger_time' = last_problem_trigger_time ]_vars

\* C15: a second entry, 15 s after the first and right after its problem_end
C15_Witness ==
    /\ pc = "warning"
    /\ mode = ModeAfterProblem
    /\ last_problem_trigger_time = now
    /\ now = StartTime + TriggerSessionAge + TriggerProblemGap

\* this step takes a note_hit with its required fields out of receive_json
TakesNoteHit ==
    /\ TakesMessage
    /\ received'[1].type = "note_hit"
    /\ ValidNoteHit(received'[1].payload)

\* C16: a note_miss, in any mode and paused or not, sets the engine's
\* combo_count to 0, its combo_multiplier to 1.0 and the state's combo to 0,
\* leaves current_score, difficulty, recent_scores, mode and current_notes as
\* they are, and sends one session_state.
C16_MissResetsCombo ==
    [][ (TakesMessage /\ received'[1].type = "note_miss")
        => (/\ scoring'.combo_count = 0
            /\ scoring'.combo_multiplier = 2
            /\ combo' = 0
            /\ scoring'.current_score = scoring.current_score
            /\ scoring'.difficulty = scoring.difficulty
            /\ scoring'.recent_scores = scoring.recent_scores
            /\ score' = score
            /\ mode' = mode
            /\ current_notes' = current_notes
            /\ Types(sent') = << "session_state" >>
            /\ sent'[1].payload.combo = 0) ]_vars

\* C16: a miss handled in problem mode while paused, after scored hits
C16_Witness ==
    /\ received # <<>>
    /\ received[1].type = "note_miss"
    /\ mode = "problem"
    /\ is_paused
    /\ scoring.current_score > 0
    /\ scoring.combo_count = 0
    /\ combo = 0
    /\ Types(sent) = << "session_state" >>

\* C17: pause_game sets is_paused, resume_game clears it, each sends one
\* session_state; mode, score, combo, current_notes, problem_section and the
\* cooldown flag stay as they are.
C17_PauseResume ==
    [][ (TakesMessage /\ received'[1].type \in {"pause_game", "resume_game"})
        => (/\ is_paused' = (received'[1].type = "pause_game")
            /\ Types(sent') = << "session_state" >>
            /\ sent'[1].payload.is_paused = is_paused'
            /\ mode' = mode
            /\ score' = score
            /\ combo' = combo
            /\ current_notes' = current_notes
            /\ problem_section' = problem_section
            /\ problem_cooldown' = problem_cooldown) ]_vars

\* C17: a session in problem mode, with a score, has been resumed
C17_Witness ==
    /\ received # <<>>
    /\ received[1].type = "resume_game"
    /\ ~is_paused
    /\ mode = "problem"
    /\ score > 0
    /\ Types(sent) = << "session_state" >>
    /\ ~sent[1].payload.is_paused

\* C18: a note_hit handled while paused, mode not "problem", is ignored:
\* score, combo and the engine's state (combo_multiplier, recent_scores,
\* difficulty, last_notes) and current_notes stay, nothing is sent, and no
\* problem section is triggered.
C18_PausedHitIgnored ==
    [][ (TakesNoteHit /\ is_paused /\ mode # "problem")
        => (/\ score' = score
            /\ combo' = combo
            /\ scoring' = scoring
            /\ current_notes' = current_notes
            /\ sent' = <<>>
            /\ pc' = "recv"
            /\ problem_cooldown' = problem_cooldown
            /\ last_problem_trigger_time' = last_problem_trigger_time) ]_vars

\* C18: a paused hit on a note of the riff at a moment when the trigger
\* predicate holds
C18_Witness ==
    /\ received # <<>>
    /\ received[1].type = "note_hit"
    /\ ValidNoteHit(received[1].payload)
    /\ HitNote(received[1]) # <<>>
    /\ is_paused
    /\ mode # "problem"
    /\ sent = <<>>
    /\ pc = "recv"
    /\ Triggering(combo)

\* C19 as claimed: every note_hit handled while mode is "problem" is appended
\* to freestyle_notes and echoed as one note_hit, without scoring.  A hit
\* whose note_id matches no current note is dropped before the mode is
\* looked at.
C19_EveryHitCaptured ==
    [][ (TakesNoteHit /\ mode = "problem")
        => (/\ Len(freestyle_notes') = Len(freestyle_notes) + 1
            /\ Types(sent') = << "note_hit" >>
            /\ scoring' = scoring
            /\ score' = score
            /\ combo' = combo) ]_vars

\* C19 amended: every note_hit whose note_id matches a current note and that
\* is handled while mode is "problem" (paused or not) has that note appended
\* to freestyle_notes and echoed as one note_hit; the engine's state and the
\* state's score and combo stay, and no score_update is sent.
C19_MatchedHitCaptured ==
    [][ (TakesNoteHit /\ mode = "problem" /\ HitNote(received'[1]) # <<>>)
        => (/\ freestyle_notes' = Append(freestyle_notes, HitNote(received'[1])[1])
            /\ Len(sent') = 1
            /\ sent'[1].type = "note_hit"
            /\ sent'[1].payload = HitNote(received'[1])[1]
            /\ scoring' = scoring
            /\ score' = score
            /\ combo' = combo) ]_vars

\* C19: two hits have been captured in problem mode, the session paused
C19_Witness ==
    /\ received # <<>>
    /\ received[1].type = "note_hit"
    /\ mode = "problem"
    /\ is_paused
    /\ Len(freestyle_notes) = 2
    /\ Types(sent) = << "note_hit" >>
    /\ sent[1].payload = freestyle_notes[2]

\* the k-th note of a payload list with the id the handler gives it
WithId(src, k) ==
    [x \in DOMAIN src[k] \cup {"id"} |->
        IF x \in DOMAIN src[k] THEN src[k][x] ELSE k - 1]

\* the place of the k-th note of a payload list once the list is sorted by
\* start, notes of equal start in payload order
SortedPlace(src, k) ==
    1 + Cardinality({j \in 1..Len(src) :
                       \/ src[j].start < src[k].start
                       \/ src[j].start = src[k].start /\ j < k})

\* C20: after a session_state with a note list (all notes with a start),
\* current_notes is that list, stable-sorted ascending by start, each entry
\* without id given its index in the payload; the notes held before are
\* gone, and the state is sent.
C20_NotesReplacedSorted ==
    [][ (/\ TakesMessage
         /\ received'[1].type = "session_state"
         /\ CarriesNotes(received'[1].payload)
         /\ AllHaveStart(received'[1].payload[NotesKey(received'[1].payload)]))
        => LET src == received'[1].payload[NotesKey(received'[1].payload)]
           IN  /\ Len(current_notes') = Len(src)
               /\ \A k \in 1..Len(src) :
                     current_notes'[SortedPlace(src, k)] = WithId(src, k)
               /\ \A i \in 1..(Len(src) - 1) :
                     current_notes'[i].start <= current_notes'[i + 1].start
               /\ Types(sent') = << "session_state" >>
               /\ sent'[1].payload.current_notes = current_notes'
               /\ pc' = "recv" ]_vars

\* C20: three notes, the two of equal start in payload order, the two
\* without id numbered by their index
C20_Witness ==
    /\ received # <<>>
    /\ received[1].payload
         = [notes |-> << [pitch |-> 40, start |-> 10, end |-> 14],
                         [pitch |-> 42, start |-> 0, end |-> 4],
                         [id |-> 5, pitch |-> 41, start |-> 0, end |-> 4] >>]
    /\ current_notes
         = << [id |-> 1, pitch |-> 42, start |-> 0, end |-> 4],
              [id |-> 5, pitch |-> 41, start |-> 0, end |-> 4],
              [id |-> 0, pitch |-> 40, start |-> 10, end |-> 14] >>
    /\ sent[1].payload.current_notes = current_notes

(***************************************************************************)
(* Properties of the session's state: mode, problem_section and the notes. *)
(***************************************************************************)
\* C21: on connect the mode is "waiting" and it stays "waiting" until notes
\* are supplied; the first session_state that carries notes moves the mode
\* from "waiting" to "normal", and nothing else leaves "waiting".
C21_WaitingUntilNotes ==
    [][ /\ received = <<>> => mode = "waiting"
        /\ (/\ TakesMessage
            /\ received'[1].type = "session_state"
            /\ CarriesNotes(received'[1].payload)
            /\ mode = "waiting") => mode' = "normal"
        /\ (mode = "waiting" /\ mode' # "waiting")
              => /\ TakesMessage
                 /\ received'[1].type = "session_state"
                 /\ CarriesNotes(received'[1].payload) ]_vars

\* C22: in every reachable state, whatever messages arrived, mode is one of
\* waiting, normal, problem, ended.
C22_ModeInDomain == mode \in {"waiting", "normal", "problem", "ended"}

\* C23: problem_section is set only while mode is "problem": it is null
\* during the warning delay and null again once the section has ended.
C23_SectionOnlyInProblem == problem_section # <<>> => mode = "problem"

C25_UniqueIds ==
    \A i, j \in 1..Len(current_notes) :
        i # j => current_notes[i].id # current_notes[j].id

(***************************************************************************)
(* Properties of the scoring engine.                                       *)
(***************************************************************************)
\* the base score of the call that left the engine in state st
BaseOf(st) ==
    BaseScore(st.metrics.reaction_score, st.metrics.rhythm_score,
              st.metrics.creativity_score)

\* the base score of a call whose components are c
ComponentsBase(c) ==
    BaseScore(c[1] * (ScoreUnit \div 3), c[2] * (ScoreUnit \div 3),
              c[3] * (ScoreUnit \div 3))

\* <<combo_count, combo_multiplier>> after n further calls of base score b
RECURSIVE RunOf(_, _, _)
RunOf(cu, b, n) ==
    IF n = 0 THEN cu ELSE RunOf(ComboUpdate(cu[1], b), b, n - 1)

Qualifying(c) == ComponentsBase(c) >= 30 * ScoreUnit

\* C26: an evaluation whose base score is at least 30 adds one to combo_count
\* and sets combo_multiplier to min(1 + 0.5 * combo_count, 4.0); one whose
\* base score is below 30 sets combo_count to 0 and combo_multiplier to 1.0.
\* So a qualifying evaluation never lowers the multiplier, the multiplier is
\* never above 4.0, and ten qualifying evaluations in a row leave it at 4.0.
C26_ComboUpdate ==
    /\ [][ hits' = hits + 1
           => IF BaseOf(scoring') >= 30 * ScoreUnit
              THEN /\ scoring'.combo_count = scoring.combo_count + 1
                   /\ scoring'.combo_multiplier
                        = Min2(2 + scoring'.combo_count, 8)
                   /\ scoring'.combo_multiplier >= scoring.combo_multiplier
              ELSE /\ scoring'.combo_count = 0
                   /\ scoring'.combo_multiplier = 2 ]_vars
    /\ [](scoring.combo_multiplier <= 8)
    /\ [](\A c \in EngineComponents :
             Qualifying(c)
                => RunOf(<< scoring.combo_count, scoring.combo_multiplier >>,
                         ComponentsBase(c), 10)[2] = 8)

\* C26: seven qualifying evaluations in a row, the multiplier held at 4.0
C26_Witness ==
    /\ hits = 7
    /\ scoring.combo_count = 7
    /\ scoring.combo_multiplier = 8

\* C27: current_score never decreases: an evaluation adds base_score *
\* difficulty_multiplier * combo_multiplier, which is not negative, and
\* no step but the handling of a note_hit or a call of evaluate (no miss,
\* reset_combo, update_difficulty, pause, resume, start or end of a problem
\* section) changes it.
C27_ScoreNeverDecreases ==
    [][ /\ scoring'.current_score >= scoring.current_score
        /\ scoring'.current_score # scoring.current_score
              => /\ scoring'.recent_scores
                      = PushRecent(scoring.recent_scores, BaseOf(scoring'))
                 /\ scoring'.current_score
                      = scoring.current_score
                          + (BaseOf(scoring')
                               * DifficultyMultiplier(scoring.difficulty)
                               * scoring'.combo_multiplier) \div 20
        /\ (~TakesNoteHit /\ hits' = hits)
              => scoring'.current_score = scoring.current_score ]_vars

\* C27: a score kept through a problem section and a note_miss after it
C27_Witness ==
    /\ scoring.current_score > 0
    /\ mode = "game"
    /\ received # <<>>
    /\ received[1].type = "note_miss"
    /\ scoring.combo_count = 0

Level(d) ==
    CASE d = "easy" -> 1
      [] d = "medium" -> 2
      [] d = "hard" -> 3
      [] d = "expert" -> 4

LevelName(l) ==
    CASE l = 1 -> "easy"
      [] l = 2 -> "medium"
      [] l = 3 -> "hard"
      [] l = 4 -> "expert"

\* the mean a level must exceed to go up
UpThreshold(d) ==
    CASE d = "easy" -> 85
      [] d = "medium" -> 90
      [] d = "hard" -> 95
      [] d = "expert" -> 101

\* C28: recent_scores holds the last base scores in order, five at most; an
\* evaluation changes difficulty by one level at most and only once five
\* samples are held: up from easy when their mean is above 85, from medium
\* above 90, from hard above 95; one level down when the mean is below 60
\* (easy stays easy); otherwise not at all.
C28_DifficultySteps ==
    /\ [](Len(scoring.recent_scores) <= 5)
    /\ [][ hits' = hits + 1
           => LET old == scoring.recent_scores
                  r == scoring'.recent_scores
                  d == scoring.difficulty
                  total == SumSeq(r)
              IN  /\ r = IF Len(old) < 5 THEN Append(old, BaseOf(scoring'))
                         ELSE Append(Tail(old), BaseOf(scoring'))
                  /\ Abs(Level(scoring'.difficulty) - Level(d)) <= 1
                  /\ Len(r) < 5 => scoring'.difficulty = d
                  /\ Len(r) = 5
                       => scoring'.difficulty
                            = IF total > UpThreshold(d) * ScoreUnit * 5
                              THEN LevelName(Level(d) + 1)
                              ELSE IF total < 60 * ScoreUnit * 5
                              THEN LevelName(Max2(Level(d) - 1, 1))
                              ELSE d ]_vars

\* C28: medium to hard at the fifth evaluation, hard to expert at the sixth
C28_Witness ==
    /\ hits = 6
    /\ scoring.difficulty = "expert"
    /\ scoring.recent_scores = [i \in 1..5 |-> 100 * ScoreUnit]
    /\ scoring.combo_count = 6

\* the evaluation that makes recent_scores five samples of b, at level d
FifthOf(b, d) ==
    /\ hits' = hits + 1
    /\ scoring.recent_scores = [i \in 1..4 |-> b * ScoreUnit]
    /\ BaseOf(scoring') = b * ScoreUnit
    /\ scoring.difficulty = d

\* C29 as stated: from medium, five evaluations of base score 90 in a row
\* leave difficulty hard; from hard, five of base score 50 leave it medium.
C29_FiveNinetiesRaise ==
    [][ /\ FifthOf(90, "medium") => scoring'.difficulty = "hard"
        /\ FifthOf(50, "hard") => scoring'.difficulty = "medium" ]_vars

\* C29: from medium with no sample held, five evaluations of base score 90
\* leave difficulty medium (a mean of 90 is not above 90) and five of base
\* score 100 leave it hard; from hard with no sample held, five of base
\* score 50 leave it medium.
C29_FiveAtTheThreshold ==
    [][ /\ FifthOf(90, "medium") => scoring'.difficulty = "medium"
        /\ FifthOf(100, "medium") => scoring'.difficulty = "hard"
        /\ FifthOf(50, "hard") => scoring'.difficulty = "medium" ]_vars

\* C29: five evaluations of base score 90, difficulty still medium
C29_Witness ==
    /\ hits = 5
    /\ scoring.recent_scores = [i \in 1..5 |-> 90 * ScoreUnit]
    /\ scoring.difficulty = "medium"
    /\ scoring.combo_count = 5

\* C30: a call of evaluate returns the components that the same call
\* (same reference notes, same player notes, same reference time) returns on
\* an engine that was never called, whatever was called before it.
C30_SameInputsSameComponents ==
    [][ (TakesNoteHit /\ scoring'.current_score # scoring.current_score)
        => scoring'.metrics
             = EvaluateAdaptation(StartSession, current_notes,
                                  scoring'.last_notes,
                                  now * UnitsPerSecond).metrics ]_vars

(***************************************************************************)
(* Properties of the scoring functions and of update_difficulty.           *)
(***************************************************************************)
\* the start of the player note of the last call, after the reference time
AdaptDelay(st) == st.last_notes[1].start - ReferenceTime

\* C31 as stated: with the reference notes [{pitch 40, start 0, end 0.5}], a
\* player note 0.05 s after the reference time has reaction score 100 and one
\* 0.25 s after it has reaction score 30.
C31_QuarterSecondIsGood ==
    [][ (hits' = hits + 1 /\ current_notes = << Note(0, 40, 0, 10) >>)
        => /\ AdaptDelay(scoring') = 1
                => scoring'.metrics.reaction_score = 100 * ScoreUnit
           /\ AdaptDelay(scoring') = 5
                => scoring'.metrics.reaction_score = 30 * ScoreUnit ]_vars

\* C31: with those reference notes a player note 0.05 s after the reference
\* time has reaction score 100, one 0.15 s after it 30 and one 0.25 s after
\* it 20.
C31_ReactionByWindow ==
    [][ (hits' = hits + 1 /\ current_notes = << Note(0, 40, 0, 10) >>)
        => /\ AdaptDelay(scoring') = 1
                => scoring'.metrics.reaction_score = 100 * ScoreUnit
           /\ AdaptDelay(scoring') = 3
                => scoring'.metrics.reaction_score = 30 * ScoreUnit
           /\ AdaptDelay(scoring') = 5
                => scoring'.metrics.reaction_score = 20 * ScoreUnit ]_vars

\* C31: a call with the player note 0.25 s after the reference time
C31_Witness ==
    /\ current_notes = << Note(0, 40, 0, 10) >>
    /\ hits = 1
    /\ scoring.last_notes = << Note(0, 40, 5, 15) >>
    /\ scoring.metrics.reaction_score = 20 * ScoreUnit

\* C32: update_difficulty with a level other than easy, medium, hard, expert
\* raises to the caller and leaves the engine's state as it was; with one of
\* the four it sets difficulty to it and changes nothing else.
C32_UpdateDifficulty ==
    /\ [](\A d \in Difficulties \cup {"insane", ""} :
            LET r == UpdateDifficulty(scoring, d)
            IN  IF d \in {"easy", "medium", "hard", "expert"}
                THEN /\ r.raised = ""
                     /\ r.state.difficulty = d
                     /\ \A f \in DOMAIN scoring \ {"difficulty"} :
                           r.state[f] = scoring[f]
                ELSE /\ r.raised # ""
                     /\ r.state = scoring)
    /\ [][ (hits' = hits /\ scoring'.difficulty # scoring.difficulty)
           => /\ scoring'.difficulty \in {"easy", "medium", "hard", "expert"}
              /\ scoring' = [scoring EXCEPT !.difficulty = scoring'.difficulty] ]_vars

\* C32: a level set by update_difficulty
C32_Witness ==
    /\ hits = 0
    /\ scoring.difficulty = "expert"
    /\ scoring.recent_scores = <<>>

(***************************************************************************)
(* Properties of the session and its engine together.                      *)
(***************************************************************************)
\* C38: in the state left by every scored hit, where the trigger predicate
\* is evaluated, and by every miss, the state's combo is the engine's
\* combo_count and the state's score is the engine's current_score, whatever
\* a session_state wrote into them before.
C38_StateMirrorsEngine ==
    [][ (\/ TakesNoteHit /\ scoring'.current_score # scoring.current_score
         \/ TakesMessage /\ received'[1].type = "note_miss")
        => /\ combo' = scoring'.combo_count
           /\ score' = scoring'.current_score ]_vars

\* C39: a note_hit whose note_id matches no note of current_notes is dropped
\* in every mode, paused or not: nothing is appended to freestyle_notes, the
\* engine and the state's score and combo are unchanged, nothing is sent and
\* no problem section is entered.
C39_UnmatchedHitDropped ==
    [][ (TakesNoteHit /\ HitNote(received'[1]) = <<>>)
        => /\ freestyle_notes' = freestyle_notes
           /\ scoring' = scoring
           /\ score' = score
           /\ combo' = combo
           /\ sent' = <<>>
           /\ pc' = "recv"
           /\ UNCHANGED <<mode, current_notes, problem_section, problem_cooldown,
                          last_problem_trigger_time, problem_log>> ]_vars

\* C39: a hit with an unknown note_id was dropped in a state in which the
\* trigger predicate holds
C39_Witness ==
    /\ received # <<>>
    /\ received[1].type = "note_hit"
    /\ ValidNoteHit(received[1].payload)
    /\ MatchingNote(current_notes, received[1].payload.note_id) = <<>>
    /\ current_notes # <<>>
    /\ pc = "recv"
    /\ sent = <<>>
    /\ Triggering(combo)

\* C40: every call of evaluate gets one player note, so no base score is
\* above 75.4 (creativity at most 18) and the difficulty never goes up: it
\* is medium or easy, and easy once it is easy.
C40_DifficultyNeverUp ==
    /\ [](/\ Len(scoring.last_notes) <= 1
          /\ scoring.metrics.reaction_score <= 100 * ScoreUnit
          /\ scoring.metrics.rhythm_score <= 100 * ScoreUnit
          /\ scoring.metrics.creativity_score <= 18 * ScoreUnit
          /\ \A i \in 1..Len(scoring.recent_scores) :
                10 * scoring.recent_scores[i] <= 754 * ScoreUnit
          /\ SumSeq(scoring.recent_scores)
                <= 85 * ScoreUnit * Len(scoring.recent_scores)
          /\ scoring.difficulty \in {"medium", "easy"})
    /\ [][scoring.difficulty = "easy" => scoring'.difficulty = "easy"]_vars

\* C40: a first call of base score 75.4, and easy after the fifth call
C40_Witness ==
    /\ hits = 5
    /\ 10 * scoring.recent_scores[1] = 754 * ScoreUnit
    /\ scoring.difficulty = "easy"

(***************************************************************************)
(* Properties of the note timeline of AudioProcessorService.               *)
(***************************************************************************)
\* C33: the timeline the chunks are merged into is sorted ascending by
\* start, whatever the detector returned.
C33_TimelineSorted ==
    \A k \in 1..(Len(all_notes) - 1) : all_notes[k].start <= all_notes[k + 1].start

\* the notes of the timeline on the string of its k-th note that start in
\* the second that ends with that note's start
InWindowOf(k) ==
    { j \in 1..Len(all_notes) :
        /\ all_notes[j].string = all_notes[k].string
        /\ all_notes[j].start > all_notes[k].start - WindowLength
        /\ all_notes[j].start <= all_notes[k].start }

\* C34: in the finished timeline no string has more than 3 note starts
\* within one second.
C34_ThreePerSecond ==
    stage = "done"
        => \A k \in 1..Len(all_notes) : Cardinality(InWindowOf(k)) <= MaxNotesPerWindow

\* well-formed raw notes that the detectors of chunk i and of chunk i + 1
\* both returned, in the region the two chunks share
DetectedTwice(i) ==
    { n \in detected[i + 1] \cap detected[i + 2] :
        /\ {"pitch", "velocity", "start", "end"} \subseteq DOMAIN n
        /\ n.start >= (i + 1) * Hop }

\* C35: every chunk but the last adds to the timeline its processed notes
\* that start before (i + 1) * H and no other, the last chunk adds all of
\* its processed notes, and a note that two consecutive chunks both detected
\* in the region they share is in the finished timeline once at most.
C35_ChunkMerge ==
    /\ [][ (stage = "chords" /\ stage' # "chords")
           => LET added == SubSeq(all_notes', Len(all_notes) + 1, Len(all_notes'))
                  processed == playable_notes \o AdjustChordTiming(current_chord)
                  Before(n) == n.start < (chunk_index + 1) * Hop
              IN  /\ SubSeq(all_notes', 1, Len(all_notes)) = all_notes
                  /\ IF chunk_index = NumChunks - 1 THEN added = processed
                     ELSE /\ added = SelectSeq(processed, Before)
                          /\ \A k \in 1..Len(added) : added[k].start < (chunk_index + 1) * Hop
                          /\ \A k \in 1..Len(processed) :
                                processed[k].start = Hop + 10
                                   => \A j \in 1..Len(added) : added[j] # processed[k]
                          /\ \A k \in 1..Len(processed) :
                                processed[k].start = Hop - 10
                                   => \E j \in 1..Len(added) : added[j] = processed[k] ]_vars
    /\ [](stage = "done"
            => \A i \in 0..(NumChunks - 2) : \A n \in DetectedTwice(i) :
                  Cardinality({k \in 1..Len(all_notes) :
                                 all_notes[k].pitch = n.pitch}) <= 1)

\* C36: a chord of the third pass has at most 4 notes, no two on one string;
\* a note joins the current chord when its start is within 0.25 s of the
\* chord's anchor, the chord has fewer than 4 notes and none on the note's
\* string; any other note has the current chord flushed and is the first
\* member of a new chord.
C36_ChordAssembly ==
    /\ [](/\ Len(current_chord) <= MaxSimultaneous
          /\ \A j, k \in 1..Len(current_chord) :
                j # k => current_chord[j].string # current_chord[k].string)
    /\ [][ (stage = "chords" /\ filtered_notes # <<>>)
           => LET note == Head(filtered_notes)
              IN  IF /\ note.start - current_chord_time <= MinGapPerString
                     /\ Len(current_chord) < MaxSimultaneous
                     /\ \A k \in 1..Len(current_chord) :
                           current_chord[k].string # note.string
                  THEN /\ current_chord' = Append(current_chord, note)
                       /\ playable_notes' = playable_notes
                  ELSE /\ current_chord' = << note >>
                       /\ playable_notes'
                            = playable_notes \o AdjustChordTiming(current_chord) ]_vars

\* what the detectors returned, without the malformed raw notes
WellFormedOnly(raw) ==
    [i \in 1..Len(raw) |->
        { n \in raw[i] : {"pitch", "velocity", "start", "end"} \subseteq DOMAIN n }]

\* C37: a raw note without pitch, velocity, start or end is rejected on its
\* own: the processing does not fail, and the timeline is the one the
\* well-formed raw notes give.
C37_BadNoteRejectedAlone ==
    /\ stage # "failed"
    /\ (stage = "done" => all_notes = ProcessChunks(<<>>, 0, WellFormedOnly(detected)))

====
